---- MODULE Spec2Model ----
(***************************************************************************)
(* A model of the voice assistant core of respeaker-openai-assistant:      *)
(* AudioHandler (capture broadcast, voice activity tracking, queue         *)
(* readers), VoiceDetectionService (hotword loop with cooldown),           *)
(* RealtimeConsumer with OpenAIRealtimeClient (session management) and     *)
(* SpeakerService (queued playback).                                       *)
(*                                                                         *)
(* Frames are identified by their capture index 1, 2, 3, ...               *)
(* Time is counted in frame periods (80 ms): the capture callback is       *)
(* driven by the device once per period.                                   *)
(***************************************************************************)
EXTENDS Integers, Sequences, FiniteSets, TLC

(***************************************************************************)
(* Bounds of the model                                                     *)
(***************************************************************************)
VadMaxFrames == 34      \* frames fed to the tracker (two full utterances)
FifoMaxFrames == 102    \* frames captured against the FIFO reader
DetMaxFrames == 7       \* frames captured against the detection loop
StopMaxFrames == 3      \* frames captured against a loop that is being stopped
DetCooldown == 3        \* hotword_cooldown (frame periods) given to the service
Epoch == 100            \* time.time() when the process starts (far above any cooldown)
SpMaxPlays == 2         \* calls of play_audio
SpMaxMarks == 2         \* calls of mark_content_done
SessMaxHotwords == 2    \* hotword_detected events delivered to the consumer
SessMaxStops == 2       \* voice_activity_stopped events delivered to the consumer
SessMaxFrames == 1      \* frames captured during a session run
SessMaxCloses == 1      \* times the remote end closes the connection
CancMaxCalls == 3       \* calls of cancel_response
CancMaxId == 2          \* response ids the server hands out
TurnMaxEvents == 4      \* bus events, frames and closes in a run of SpecTurn
EndMaxEvents == 3       \* bus events, frames and closes in a run of SpecEnd
ColMaxEvents == 3       \* bus events and frames in a run of SpecCol
ErrMaxEvents == 3       \* hotwords and remote errors in a run of SpecError
SmMaxCallbacks == 2     \* callbacks given to register_callback
RegMaxCalls == 2        \* calls of register_queue
RegMaxFrames == 4       \* frames captured in a run of SpecReg
BusMaxEvents == 4       \* calls of subscribe, unsubscribe and publish together
S1SpeechFrames == 25    \* 2 s of speech in frames of 80 ms
S1SilenceFrames == 19   \* 1.5 s of silence in frames of 80 ms
SendMaxLen == 3         \* bytes of a buffer given to send_audio / send_complete_audio
SendMaxMsgs == 3        \* messages in flight in a run of SpecSend

(***************************************************************************)
(* Program constants                                                       *)
(***************************************************************************)
HotwordQueueMax == 3    \* queue.Queue(maxsize=3)
AudioQueueMax == 100    \* queue.Queue(maxsize=100)
SilenceThreshold == 15  \* silence_threshold default
SubFrames == 4          \* 80 ms chunk / 20 ms VAD frames
Threshold == 5          \* HotwordDetector.threshold = 0.5, scores in tenths
EmptyTimeoutLimit == 2  \* if empty_queue_timeout >= 2
MaxRetries == 3         \* connect(max_retries=3)

None == "None"

\* audio_data of the detection loop when read_hotword_chunk returned None
\* (frames are numbered from 1)
NoFrame == 0

\* A captured chunk as the VAD sees it: the verdict of webrtcvad on each of
\* its full 20 ms sub-frames.
Chunks == [1..SubFrames -> BOOLEAN]

Words == {"alexa", "hey_jarvis"}
ScoreLevels == {4, 5}

VARIABLES
    \* AudioHandler
    stream,            \* None or "open"
    event_bus_set,     \* AudioHandler constructed with an event bus
    captured,          \* number of frames the device has delivered
    hotword_queue,     \* queue.Queue(maxsize=3)
    audio_queue,       \* queue.Queue(maxsize=100)
    voice_active,
    silence_frames,
    voice_start_time,  \* None or the time of the started event
    vad_events,        \* events published by _track_voice_activity, in order
    \* reader of the audio queue (read_audio_chunk)
    audio_read,        \* frames read_audio_chunk has returned, in order
    audio_dropped,     \* frames the callback could not enqueue on audio_queue
    \* VoiceDetectionService
    running,
    hotword_cooldown,
    last_detection_time,  \* word -> time of the last published detection
    det_pc,               \* position of the detection loop
    det_frame,            \* frame returned by the last read_hotword_chunk
    det_latest,           \* newest captured frame when that read returned
    det_scores,           \* scores of the frame being processed
    det_todo,             \* words of scores.items() not yet visited
    hotword_events,       \* published hotword_detected events
    \* SpeakerService
    sp_running,           \* SpeakerService.running
    sp_event_bus_set,     \* SpeakerService constructed with an event bus
    sp_queue,             \* SpeakerService.audio_queue
    sp_playing,           \* SpeakerService.playing
    content_done,
    empty_queue_timeout,  \* local of _playback_loop, in seconds
    sp_pc,                \* position of the playback worker
    sp_content_done,      \* local content_done of _playback_loop
    sp_stream_open,       \* playback_stream is not None
    speaking_finished,    \* number of speaking_finished events published
    sp_played,            \* chunks written to the output device, in order
    sp_marks,             \* calls of mark_content_done so far
    sp_plays,             \* calls of play_audio so far
    sp_play_after_mark,   \* play_audio was called after mark_content_done
    pa_pc,                \* position of a caller inside play_audio
    \* RealtimeConsumer, OpenAIRealtimeClient and the remote service
    rc,                   \* the fields of the RealtimeConsumer
    oc,                   \* the fields of its OpenAIRealtimeClient (self.client)
    tasks,                \* coroutines submitted to the consumer's asyncio loop
    loop_busy,            \* the loop thread is inside a blocking callback
    collectors,           \* live _stream_audio_loop threads, by position
    net,                  \* the websocket: messages in flight and the server
    hist,                 \* history of the run, read by the properties only
    \* AudioHandler.consumer_queues and a queue given to register_queue
    consumer_queues,      \* the list the callback broadcasts to
    consumer_queue,       \* a caller's queue.Queue()
    \* EventBus
    subscribers,          \* _subscribers: topic -> list of handlers
    bus_lock,             \* holder of _lock: the number of a publish, 0 when free
    pubs,                 \* calls of publish, in order of their snapshot
    bus_calls,            \* calls of subscribe and unsubscribe so far
    \* StateMachine
    sm_state,             \* _state
    sm_callbacks,         \* keys of _callbacks, one per registered callback, in order
    sm_last               \* the last call made and what it did

audioVars == <<stream, event_bus_set, captured, hotword_queue, audio_queue>>
vadVars == <<voice_active, silence_frames, voice_start_time, vad_events>>
fifoVars == <<audio_read, audio_dropped>>
detVars == <<running, hotword_cooldown, last_detection_time, det_pc, det_frame,
             det_latest, det_scores, det_todo, hotword_events>>

spkVars == <<sp_running, sp_event_bus_set, sp_queue, sp_playing, content_done,
             empty_queue_timeout, sp_pc, sp_content_done, sp_stream_open,
             speaking_finished, sp_played, sp_marks, sp_plays, sp_play_after_mark,
             pa_pc>>
sessVars == <<rc, oc, tasks, loop_busy, collectors, net, hist>>

regVars == <<consumer_queues, consumer_queue>>
busVars == <<subscribers, bus_lock, pubs, bus_calls>>
smVars == <<sm_state, sm_callbacks, sm_last>>

vars == <<audioVars, vadVars, fifoVars, detVars, spkVars, sessVars, regVars, busVars,
          smVars>>

\* time.time() / datetime.now(): one frame period per delivered frame
Now == Epoch + captured

(***************************************************************************)
(* queue.Queue                                                             *)
(***************************************************************************)
\* q.put_nowait(x); queue.Full is swallowed by the caller; a queue made with
\* maxsize 0 (the default) is never full
PutNowait(q, x, max) ==
    IF max > 0 /\ Len(q) >= max THEN q ELSE Append(q, x)

(***************************************************************************)
(* AudioHandler                                                            *)
(***************************************************************************)
\* is_speech: some full 20 ms sub-frame is classified as speech
is_speech(chunk) == \E i \in 1..SubFrames : chunk[i]

VadEvent(type, ts, duration) == [type |-> type, timestamp |-> ts, duration |-> duration]

\* a duration that leaves the trailing silence out
DurationOfSpeech(stop_time, start_time) == stop_time - start_time - SilenceThreshold

\* duration = (stop_time - self.voice_start_time).total_seconds()
Duration(stop_time, start_time) == stop_time - start_time

\* a threshold test that fires one frame early
SilenceReachedEarly(frames) == frames >= SilenceThreshold - 1

\* if self.silence_frames >= self.silence_threshold
SilenceReached(frames) == frames >= SilenceThreshold

\* a speech frame that leaves the silence counter alone
SpeechKeepsCount(frames) == frames

\* if is_speech: self.silence_frames = 0
SpeechResets(frames) == 0

\* a stop that leaves the silence counter where it is
StopKeepsCount(frames) == frames

\* after the stopped event is published: self.silence_frames = 0
StopResets(frames) == 0

\* _track_voice_activity without the "if not self.voice_active" latch
TrackVoiceActivityNoLatch(chunk) ==
    IF is_speech(chunk)
    THEN /\ silence_frames' = SpeechResets(silence_frames)
         /\ voice_active' = TRUE
         /\ voice_start_time' = Now'
         /\ vad_events' = Append(vad_events, VadEvent("started", Now', 0))
    ELSE IF voice_active
         THEN IF SilenceReached(silence_frames + 1)
              THEN /\ voice_active' = FALSE
                   /\ vad_events' = Append(vad_events,
                          VadEvent("stopped", Now', Duration(Now', voice_start_time)))
                   /\ voice_start_time' = None
                   /\ silence_frames' = 0
              ELSE /\ silence_frames' = silence_frames + 1
                   /\ UNCHANGED <<voice_active, voice_start_time, vad_events>>
         ELSE UNCHANGED vadVars

\* _track_voice_activity, as a function of the tracker state
TrackVoiceActivity(chunk) ==
    IF is_speech(chunk)
    THEN /\ silence_frames' = SpeechResets(silence_frames)
         /\ IF ~voice_active
            THEN /\ voice_active' = TRUE
                 /\ voice_start_time' = Now'
                 /\ vad_events' = Append(vad_events, VadEvent("started", Now', 0))
            ELSE UNCHANGED <<voice_active, voice_start_time, vad_events>>
    ELSE IF voice_active
         THEN IF SilenceReached(silence_frames + 1)
              THEN /\ voice_active' = FALSE
                   /\ vad_events' = Append(vad_events,
                          VadEvent("stopped", Now', Duration(Now', voice_start_time)))
                   /\ voice_start_time' = None
                   /\ silence_frames' = StopResets(silence_frames + 1)
              ELSE /\ silence_frames' = silence_frames + 1
                   /\ UNCHANGED <<voice_active, voice_start_time, vad_events>>
         ELSE UNCHANGED vadVars

\* for q in self.consumer_queues: q.put_nowait(in_data), as it acts on the
\* queue named name: one put for each place the queue has in the list
RECURSIVE PutTimes(_, _, _, _)
PutTimes(q, x, max, times) ==
    IF times = 0 THEN q ELSE PutTimes(PutNowait(q, x, max), x, max, times - 1)

Places(name) == Cardinality({k \in 1..Len(consumer_queues) : consumer_queues[k] = name})

Broadcast(name, q, x, max) == PutTimes(q, x, max, Places(name))

\* register_queue: self.consumer_queues.append(consumer_queue)
RegisterQueue(list, name) == Append(list, name)

register_queue(name) ==
    /\ consumer_queues' = RegisterQueue(consumer_queues, name)
    /\ UNCHANGED <<smVars, busVars, spkVars, sessVars, audioVars, vadVars, fifoVars, detVars,
                   consumer_queue>>

\* _audio_callback: broadcast to every consumer queue, then track voice activity
AudioCallback(chunk) ==
    /\ stream = "open"
    /\ captured' = captured + 1
    /\ hotword_queue' = Broadcast("hotword", hotword_queue, captured + 1, HotwordQueueMax)
    /\ audio_queue' = Broadcast("audio", audio_queue, captured + 1, AudioQueueMax)
    /\ consumer_queue' = Broadcast("consumer", consumer_queue, captured + 1, 0)
    /\ UNCHANGED consumer_queues
    /\ audio_dropped' = IF audio_queue' = audio_queue
                        THEN Append(audio_dropped, captured + 1)
                        ELSE audio_dropped
    /\ IF event_bus_set THEN TrackVoiceActivity(chunk) ELSE UNCHANGED vadVars
    /\ UNCHANGED <<smVars, busVars, spkVars, sessVars, stream, event_bus_set, audio_read, detVars>>

start_stream ==
    /\ stream = None
    /\ stream' = "open"
    /\ UNCHANGED <<smVars, regVars, busVars, spkVars, sessVars, event_bus_set, captured, hotword_queue, audio_queue,
                   vadVars, fifoVars, detVars>>

\* stop_stream(): stop and close the stream, self.stream = None
stop_stream ==
    /\ stream # None
    /\ stream' = None
    /\ UNCHANGED <<smVars, regVars, busVars, spkVars, sessVars, event_bus_set, captured, hotword_queue, audio_queue,
                   vadVars, fifoVars, detVars>>

\* read_audio_chunk on a LIFO queue
ReadAudioChunkLifo ==
    /\ stream # None
    /\ audio_queue # <<>>
    /\ audio_read' = Append(audio_read, audio_queue[Len(audio_queue)])
    /\ audio_queue' = SubSeq(audio_queue, 1, Len(audio_queue) - 1)
    /\ UNCHANGED <<smVars, regVars, busVars, spkVars, sessVars, stream, event_bus_set, captured, hotword_queue, audio_dropped,
                   vadVars, detVars>>

\* read_audio_chunk, a frame is available: the head of the FIFO is returned
ReadAudioChunk ==
    /\ stream # None
    /\ audio_queue # <<>>
    /\ audio_read' = Append(audio_read, Head(audio_queue))
    /\ audio_queue' = Tail(audio_queue)
    /\ UNCHANGED <<smVars, regVars, busVars, spkVars, sessVars, stream, event_bus_set, captured, hotword_queue, audio_dropped,
                   vadVars, detVars>>


(***************************************************************************)
(* AudioHandler.read_hotword_chunk, called by the detection loop           *)
(***************************************************************************)
\* while self.hotword_queue.qsize() > 1: self.hotword_queue.get_nowait()
HwSkip ==
    /\ det_pc = "skip"
    /\ IF Len(hotword_queue) > 1
       THEN hotword_queue' = Tail(hotword_queue) /\ det_pc' = "skip"
       ELSE hotword_queue' = hotword_queue /\ det_pc' = "get"
    /\ UNCHANGED <<smVars, regVars, busVars, spkVars, sessVars, stream, event_bus_set, captured, audio_queue, vadVars, fifoVars,
                   running, hotword_cooldown, last_detection_time, det_frame,
                   det_latest, det_scores, det_todo, hotword_events>>

\* return self.hotword_queue.get(timeout=0.2), a frame is (or becomes) available
HwGet ==
    /\ det_pc = "get"
    /\ hotword_queue # <<>>
    /\ det_frame' = Head(hotword_queue)
    /\ det_latest' = captured
    /\ hotword_queue' = Tail(hotword_queue)
    /\ det_pc' = "score"
    /\ UNCHANGED <<smVars, regVars, busVars, spkVars, sessVars, stream, event_bus_set, captured, audio_queue, vadVars, fifoVars,
                   running, hotword_cooldown, last_detection_time,
                   det_scores, det_todo, hotword_events>>

\* queue.Empty after 0.2 s: read_hotword_chunk returns None
HwTimeout ==
    /\ det_pc = "get"
    /\ hotword_queue = <<>>
    /\ det_frame' = NoFrame
    /\ det_pc' = "loop"
    /\ UNCHANGED <<smVars, regVars, busVars, spkVars, sessVars, audioVars, vadVars, fifoVars, running, hotword_cooldown,
                   last_detection_time, det_latest, det_scores, det_todo,
                   hotword_events>>

(***************************************************************************)
(* VoiceDetectionService                                                   *)
(***************************************************************************)
HotwordEvent(w, ts, score, qsize) ==
    [hotword |-> w, timestamp |-> ts, score |-> score, audio_queue_size |-> qsize]

\* the debouncing test, one period short
InCooldownShort(current_time, last_time) ==
    current_time - last_time < hotword_cooldown - 1

\* a debouncing test that never lets a word fire a second time
InCooldownForever(current_time, last_time) ==
    last_time > 0

\* the debouncing test of the loop: still in the cooldown period?
InCooldown(current_time, last_time) ==
    current_time - last_time < hotword_cooldown

\* start(): running = True, enter the loop
DetStart ==
    /\ ~running
    /\ det_pc = "stopped"
    /\ running' = TRUE
    /\ det_pc' = "loop"
    /\ UNCHANGED <<smVars, regVars, busVars, spkVars, sessVars, audioVars, vadVars, fifoVars, hotword_cooldown,
                   last_detection_time, det_frame, det_latest, det_scores,
                   det_todo, hotword_events>>

\* stop(), from a signal handler or another thread
DetStop ==
    /\ running
    /\ running' = FALSE
    /\ UNCHANGED <<smVars, regVars, busVars, spkVars, sessVars, audioVars, vadVars, fifoVars, hotword_cooldown,
                   last_detection_time, det_pc, det_frame, det_latest, det_scores,
                   det_todo, hotword_events>>

\* a loop that never tests the flag: while True
KeepsLoopingAlways(flag) == TRUE

\* the test of the loop: while self.running
KeepsLooping(flag) == flag

\* while self.running: audio_data = self.audio_handler.read_hotword_chunk()
DetLoop ==
    /\ det_pc = "loop"
    /\ det_pc' = IF ~KeepsLooping(running) THEN "stopped"
                 ELSE IF stream = None THEN "loop"
                 ELSE "skip"
    /\ det_frame' = IF running /\ stream = None THEN NoFrame ELSE det_frame
    /\ UNCHANGED <<smVars, regVars, busVars, spkVars, sessVars, audioVars, vadVars, fifoVars, running, hotword_cooldown,
                   last_detection_time, det_latest, det_scores, det_todo,
                   hotword_events>>

\* scores = self.hotword_detector.get_scores(pcm16_data); {} when the model raises
DetScore(scores, failed) ==
    /\ det_pc = "score"
    /\ det_scores' = scores
    /\ det_todo' = IF failed THEN {} ELSE Words
    /\ det_pc' = "words"
    /\ UNCHANGED <<smVars, regVars, busVars, spkVars, sessVars, audioVars, vadVars, fifoVars, running, hotword_cooldown,
                   last_detection_time, det_frame, det_latest, hotword_events>>

\* one iteration of: for model_name, score in scores.items()
DetWord(w) ==
    /\ det_pc = "words"
    /\ w \in det_todo
    /\ det_todo' = det_todo \ {w}
    /\ IF det_scores[w] >= Threshold /\ ~InCooldown(Now, last_detection_time[w])
       THEN /\ last_detection_time' = [last_detection_time EXCEPT ![w] = Now]
            /\ hotword_events' = Append(hotword_events,
                   HotwordEvent(w, Now, det_scores[w], Len(audio_queue)))
       ELSE UNCHANGED <<last_detection_time, hotword_events>>
    /\ UNCHANGED <<smVars, regVars, busVars, spkVars, sessVars, audioVars, vadVars, fifoVars, running, hotword_cooldown,
                   det_pc, det_frame, det_latest, det_scores>>

\* the for loop is exhausted: back to the while test (the locals of the
\* iteration are dead from here on)
DetWordsDone ==
    /\ det_pc = "words"
    /\ det_todo = {}
    /\ det_pc' = "loop"
    /\ det_frame' = NoFrame
    /\ det_latest' = 0
    /\ det_scores' = [w \in Words |-> 0]
    /\ UNCHANGED <<smVars, regVars, busVars, spkVars, sessVars, audioVars, vadVars, fifoVars, running, hotword_cooldown,
                   last_detection_time, det_todo, hotword_events>>

(***************************************************************************)
(* SpeakerService                                                          *)
(***************************************************************************)
\* an event_bus module that defines the class
SpeakingFinishedEventImportable == TRUE

\* core/event_bus.py defines HotwordEvent and VoiceActivityEvent only, so
\* "from .event_bus import SpeakingFinishedEvent" raises ImportError
SpeakingFinishedEventDefined == FALSE

\* start(): running = True and the playback thread is started
SpStart ==
    /\ ~sp_running
    /\ sp_running' = TRUE
    /\ sp_pc' = "get"
    /\ UNCHANGED <<smVars, regVars, busVars, audioVars, vadVars, fifoVars, detVars, sessVars,
                   sp_event_bus_set, sp_queue, sp_playing, content_done,
                   empty_queue_timeout, sp_content_done, sp_stream_open,
                   speaking_finished, sp_played, sp_marks, sp_plays,
                   sp_play_after_mark, pa_pc>>

\* play_audio leaving the flag as it finds it
ResetContentDoneKeeps(done) == done

\* with self._content_done_lock: if self.content_done: self.content_done = False
ResetContentDone(done) == IF done THEN FALSE ELSE done

\* play_audio, first part: dropped when not started, else content_done is
\* reset under the lock
PlayAudioEnter ==
    /\ pa_pc = "idle"
    /\ sp_plays' = sp_plays + 1
    /\ IF ~sp_running
       THEN UNCHANGED <<content_done, pa_pc, sp_play_after_mark>>
       ELSE /\ content_done' = ResetContentDone(content_done)
            /\ pa_pc' = "put"
            /\ sp_play_after_mark' = (sp_play_after_mark \/ sp_marks > 0)
    /\ UNCHANGED <<smVars, regVars, busVars, audioVars, vadVars, fifoVars, detVars, sessVars,
                   sp_running, sp_event_bus_set, sp_queue, sp_playing,
                   empty_queue_timeout, sp_pc, sp_content_done, sp_stream_open,
                   speaking_finished, sp_played, sp_marks>>

\* play_audio, second part: self.audio_queue.put(audio_data); playing = True
PlayAudioPut ==
    /\ pa_pc = "put"
    /\ sp_queue' = Append(sp_queue, sp_plays)
    /\ sp_playing' = TRUE
    /\ pa_pc' = "idle"
    /\ UNCHANGED <<smVars, regVars, busVars, audioVars, vadVars, fifoVars, detVars, sessVars,
                   sp_running, sp_event_bus_set, content_done,
                   empty_queue_timeout, sp_pc, sp_content_done, sp_stream_open,
                   speaking_finished, sp_played, sp_marks, sp_plays,
                   sp_play_after_mark>>

\* mark_content_done()
MarkContentDone ==
    /\ content_done' = TRUE
    /\ sp_marks' = sp_marks + 1
    /\ UNCHANGED <<smVars, regVars, busVars, audioVars, vadVars, fifoVars, detVars, sessVars,
                   sp_running, sp_event_bus_set, sp_queue, sp_playing,
                   empty_queue_timeout, sp_pc, sp_content_done, sp_stream_open,
                   speaking_finished, sp_played, sp_plays, sp_play_after_mark,
                   pa_pc>>

\* clear_queue()
SpClearQueue ==
    /\ sp_queue # <<>>
    /\ sp_queue' = <<>>
    /\ UNCHANGED <<smVars, regVars, busVars, audioVars, vadVars, fifoVars, detVars, sessVars,
                   sp_running, sp_event_bus_set, sp_playing, content_done,
                   empty_queue_timeout, sp_pc, sp_content_done, sp_stream_open,
                   speaking_finished, sp_played, sp_marks, sp_plays,
                   sp_play_after_mark, pa_pc>>

\* _playback_loop: audio_queue.get(timeout=1.0) returns a chunk, which is
\* written to the device; when opening the device or the write raises, the
\* error is logged and the chunk is lost
SpGet(device_ok) ==
    /\ sp_pc = "get"
    /\ sp_running
    /\ sp_queue # <<>>
    /\ sp_queue' = Tail(sp_queue)
    /\ sp_playing' = TRUE
    /\ empty_queue_timeout' = 0
    /\ sp_stream_open' = (sp_stream_open \/ device_ok)
    /\ sp_played' = IF device_ok THEN Append(sp_played, Head(sp_queue)) ELSE sp_played
    /\ UNCHANGED <<smVars, regVars, busVars, audioVars, vadVars, fifoVars, detVars, sessVars,
                   sp_running, sp_event_bus_set, content_done, sp_pc,
                   sp_content_done, speaking_finished, sp_marks, sp_plays,
                   sp_play_after_mark, pa_pc>>

\* _playback_loop: queue.Empty after one second
SpEmpty ==
    /\ sp_pc = "get"
    /\ sp_running
    /\ sp_queue = <<>>
    /\ sp_pc' = "read_done"
    /\ UNCHANGED <<smVars, regVars, busVars, audioVars, vadVars, fifoVars, detVars, sessVars,
                   sp_running, sp_event_bus_set, sp_queue, sp_playing,
                   content_done, empty_queue_timeout, sp_content_done,
                   sp_stream_open, speaking_finished, sp_played, sp_marks,
                   sp_plays, sp_play_after_mark, pa_pc>>

\* with self._content_done_lock: content_done = self.content_done
SpReadDone ==
    /\ sp_pc = "read_done"
    /\ sp_content_done' = content_done
    /\ sp_pc' = "test"
    /\ UNCHANGED <<smVars, regVars, busVars, audioVars, vadVars, fifoVars, detVars, sessVars,
                   sp_running, sp_event_bus_set, sp_queue, sp_playing,
                   content_done, empty_queue_timeout, sp_stream_open,
                   speaking_finished, sp_played, sp_marks, sp_plays,
                   sp_play_after_mark, pa_pc>>

\* if content_done and self.audio_queue.empty(): count the second, and after
\* EmptyTimeoutLimit of them go on to raise the event
SpTest ==
    /\ sp_pc = "test"
    /\ IF sp_content_done /\ sp_queue = <<>>
       THEN /\ empty_queue_timeout' = empty_queue_timeout + 1
            /\ sp_pc' = IF empty_queue_timeout + 1 >= EmptyTimeoutLimit
                        THEN "raise" ELSE "get"
       ELSE /\ empty_queue_timeout' = 0
            /\ sp_pc' = "get"
    /\ sp_content_done' = FALSE
    /\ UNCHANGED <<smVars, regVars, busVars, audioVars, vadVars, fifoVars, detVars, sessVars,
                   sp_running, sp_event_bus_set, sp_queue, sp_playing,
                   content_done, sp_stream_open, speaking_finished, sp_played,
                   sp_marks, sp_plays, sp_play_after_mark, pa_pc>>

\* _raise_speaking_finished_event: playing = False; without an event bus it
\* returns; with one it imports SpeakingFinishedEvent and publishes. The
\* ImportError is raised inside the "except queue.Empty" clause, so no
\* handler of the loop catches it and the playback thread ends.
SpRaise ==
    /\ sp_pc = "raise"
    /\ sp_playing' = FALSE
    /\ IF ~sp_event_bus_set
       THEN sp_pc' = "reset" /\ UNCHANGED speaking_finished
       ELSE IF SpeakingFinishedEventDefined
            THEN sp_pc' = "reset" /\ speaking_finished' = speaking_finished + 1
            ELSE sp_pc' = "dead" /\ UNCHANGED speaking_finished
    /\ UNCHANGED <<smVars, regVars, busVars, audioVars, vadVars, fifoVars, detVars, sessVars,
                   sp_running, sp_event_bus_set, sp_queue, content_done,
                   empty_queue_timeout, sp_content_done, sp_stream_open,
                   sp_played, sp_marks, sp_plays, sp_play_after_mark, pa_pc>>

\* with self._content_done_lock: self.content_done = False; timeout = 0.0
SpReset ==
    /\ sp_pc = "reset"
    /\ content_done' = FALSE
    /\ empty_queue_timeout' = 0
    /\ sp_pc' = "get"
    /\ UNCHANGED <<smVars, regVars, busVars, audioVars, vadVars, fifoVars, detVars, sessVars,
                   sp_running, sp_event_bus_set, sp_queue, sp_playing,
                   sp_content_done, sp_stream_open, speaking_finished,
                   sp_played, sp_marks, sp_plays, sp_play_after_mark, pa_pc>>

(***************************************************************************)
(* RealtimeConsumer and OpenAIRealtimeClient                               *)
(*                                                                         *)
(* Handlers of bus events run on the bus's delivery threads, the coroutines *)
(* they submit run on the consumer's asyncio loop (one at a time, switching *)
(* at an await), the collector runs on its own thread.                      *)
(***************************************************************************)
RemoveAt(seq, i) == SubSeq(seq, 1, i - 1) \o SubSeq(seq, i + 1, Len(seq))

Task(kind, stop) ==
    [kind |-> kind, pc |-> "new", stop |-> stop, attempt |-> 0, gen |-> 0]

\* asyncio starts submitted coroutines in the order of submission
MayRun(i) ==
    /\ rc.loop # None
    /\ loop_busy = "no"
    /\ tasks[i].pc = "new" => \A j \in 1..(i - 1) : tasks[j].pc # "new"

Spawn(threads) == [threads EXCEPT !["start"] = @ + 1]

\* OpenAIRealtimeClient.__init__
NewClient ==
    [connected |-> FALSE, has_active_response |-> FALSE, response_id |-> 0,
     websocket |-> None, gen |-> 0]

NewSocket == [outbox |-> <<>>, inbox |-> <<>>, srv_response |-> 0,
              srv_stage |-> "idle", srv_next_id |-> net.srv_next_id,
              closes |-> net.closes]

\* an error message is the sequence of its words
Msg(type, id) == [type |-> type, id |-> id, text |-> <<>>, audio |-> <<>>]
ErrorMsg(text) == [type |-> "error", id |-> 0, text |-> text, audio |-> <<>>]

NoActiveText == <<"Cancellation", "failed:", "no", "active", "response", "found">>
BusyText == <<"Conversation", "already", "has", "an", "active", "response">>
ClosedText == <<"connection", "closed">>
RefusedText == <<"connection", "refused">>
RecvBusyText == <<"cannot", "call", "recv", "while", "another", "coroutine",
                  "is", "already", "running", "recv">>
CancelFailedText == <<"Cancellation", "failed">>
NotActiveText == <<"There", "is", "no", "active", "response">>
LowerCaseText == <<"cancellation", "failed;", "No", "active", "response">>
InvalidText == <<"Invalid", "audio">>

\* the messages the remote end may put into an error event
ErrorTexts == {NoActiveText, BusyText, CancelFailedText, NotActiveText,
               LowerCaseText, InvalidText}

\* err in error_msg: err occurs in the message as a run of words
Contains(text, err) ==
    \E k \in 0..(Len(text) - Len(err)) : SubSeq(text, k + 1, k + Len(err)) = err

\* non_critical_errors
NonCriticalErrors == {<<"no", "active", "response">>, <<"Cancellation", "failed">>}

\* _on_error with every message taken as critical
IsCriticalAlways(text) == TRUE

\* _on_error: is_critical = not any(err in error_msg for err in
\* non_critical_errors)
IsCritical(text) == ~(\E err \in NonCriticalErrors : Contains(text, err))

\* RealtimeConsumer._on_error
OnError(c, text) ==
    IF IsCritical(text)
    THEN [c EXCEPT !.in_conversation = FALSE, !.streaming_audio = FALSE]
    ELSE c

\* start(): the asyncio loop runs in its thread
ConsumerStart ==
    /\ rc.loop = None
    /\ rc' = [rc EXCEPT !.loop = "running"]
    /\ UNCHANGED <<smVars, regVars, busVars, audioVars, vadVars, fifoVars, detVars, spkVars,
                   oc, tasks, loop_busy, collectors, net, hist>>

\* on_hotword_detected: a restart when in conversation, else a start
OnHotwordDetected ==
    /\ tasks' = IF rc.loop = None THEN tasks
                ELSE Append(tasks, Task(IF rc.in_conversation THEN "restart" ELSE "start", 0))
    /\ hist' = [hist EXCEPT
          !.n_hotwords = @ + 1,
          !.interrupt_pending =
              rc.loop # None /\ rc.in_conversation /\ rc.client # None
              /\ oc.has_active_response,
          !.due_turn = IF @ = 0 /\ rc.loop # None /\ hist.marked_disconnected
                       THEN hist.n_hotwords + 1 ELSE @]
    /\ UNCHANGED <<smVars, regVars, busVars, audioVars, vadVars, fifoVars, detVars, spkVars,
                   rc, oc, loop_busy, collectors, net>>

\* on_voice_stopped without its first test
IgnoresStopNever(c) == FALSE

\* on_voice_stopped: if not self.in_conversation: return
IgnoresStop(c) == ~c.in_conversation

\* on_voice_stopped: ignored when not in conversation, else streaming stops
\* and _commit_and_respond is submitted
OnVoiceStopped ==
    LET n == hist.n_stops + 1
        info(outcome) == [turn |-> hist.n_hotwords,
                          after_interrupt |-> hist.interrupt_pending,
                          outcome |-> outcome]
    IN
    /\ IF IgnoresStop(rc)
       THEN /\ UNCHANGED <<rc, tasks>>
            /\ hist' = [hist EXCEPT !.n_stops = n,
                          !.stop_info = Append(@, info("ignored")),
                          !.interrupt_pending = FALSE]
       ELSE /\ rc' = [rc EXCEPT !.streaming_audio = FALSE]
            /\ tasks' = IF rc.loop = None THEN tasks
                        ELSE Append(tasks, Task("commit", n))
            /\ hist' = [hist EXCEPT !.n_stops = n,
                          !.stop_info = Append(@, info("pending")),
                          !.interrupt_pending = FALSE]
    /\ UNCHANGED <<smVars, regVars, busVars, audioVars, vadVars, fifoVars, detVars, spkVars,
                   oc, loop_busy, collectors, net>>

\* _stream_audio_loop: self.collected_audio.clear() when the thread starts
ColStart ==
    /\ collectors["start"] > 0
    /\ rc' = [rc EXCEPT !.collected_audio = <<>>]
    /\ collectors' = [collectors EXCEPT !["start"] = @ - 1, !["check"] = @ + 1]
    /\ UNCHANGED <<smVars, regVars, busVars, audioVars, vadVars, fifoVars, detVars, spkVars,
                   oc, tasks, loop_busy, net, hist>>

\* while self.streaming_audio and self.in_conversation
ColCheck ==
    /\ collectors["check"] > 0
    /\ collectors' = IF rc.streaming_audio /\ rc.in_conversation
                     THEN [collectors EXCEPT !["check"] = @ - 1, !["read"] = @ + 1]
                     ELSE [collectors EXCEPT !["check"] = @ - 1]
    /\ UNCHANGED <<smVars, regVars, busVars, audioVars, vadVars, fifoVars, detVars, spkVars,
                   rc, oc, tasks, loop_busy, net, hist>>

\* a queue.get() without timeout: returns only when an item is there
GetBlocks(queue) == queue # <<>>

\* self.audio_queue.get(timeout=timeout): returns an item, or raises
\* queue.Empty once the timeout has passed
GetReturns(queue) == TRUE

\* chunk = read_audio_chunk(timeout=0.1); if chunk: collected_audio.extend(chunk)
ColRead ==
    /\ collectors["read"] > 0
    /\ stream = None \/ GetReturns(audio_queue)
    /\ collectors' = [collectors EXCEPT !["read"] = @ - 1, !["check"] = @ + 1]
    /\ IF stream # None /\ audio_queue # <<>>
       THEN /\ rc' = [rc EXCEPT !.collected_audio = Append(@, Head(audio_queue))]
            /\ audio_queue' = Tail(audio_queue)
       ELSE UNCHANGED <<rc, audio_queue>>
    /\ UNCHANGED <<smVars, regVars, busVars, stream, event_bus_set, captured, hotword_queue,
                   vadVars, fifoVars, detVars, spkVars,
                   oc, tasks, loop_busy, net, hist>>

\* OpenAIRealtimeClient.cancel_response: the value returned, the messages
\* sent and the client afterwards
CancelResponseNoActiveCheck(c) ==
    IF ~c.connected \/ c.websocket = None
    THEN [ret |-> FALSE, msgs |-> <<>>, client |-> c]
    ELSE IF c.websocket = "open"
    THEN [ret |-> TRUE, msgs |-> <<Msg("response.cancel", c.response_id)>>,
          client |-> [c EXCEPT !.has_active_response = FALSE, !.response_id = 0]]
    ELSE [ret |-> FALSE, msgs |-> <<>>, client |-> c]

CancelResponse(c) ==
    IF ~c.connected \/ c.websocket = None
    THEN [ret |-> FALSE, msgs |-> <<>>, client |-> c]
    ELSE IF ~c.has_active_response
    THEN [ret |-> FALSE, msgs |-> <<>>, client |-> c]
    ELSE IF c.websocket = "open"
    THEN [ret |-> TRUE, msgs |-> <<Msg("response.cancel", c.response_id)>>,
          client |-> [c EXCEPT !.has_active_response = FALSE, !.response_id = 0]]
    ELSE [ret |-> FALSE, msgs |-> <<>>, client |-> c]

\* a socket that transmits every message twice
SendTwice(n, msgs) == [n EXCEPT !.outbox = @ \o msgs \o msgs]

\* await self.websocket.send(...) for each message of msgs
Send(n, msgs) == [n EXCEPT !.outbox = @ \o msgs]

Types(msgs) == [k \in 1..Len(msgs) |-> msgs[k].type]

SetOutcome(h, stop, outcome) == [h EXCEPT !.stop_info[stop].outcome = outcome]

\* if self.client and self.client.connected
ReusesClientNever(client, c) == FALSE

ReusesClient(client, c) == client # None /\ c.connected

\* _start_conversation up to its first await: reuse a connected client (and
\* begin the turn), else drop the old client and create a new one
StartConversationBegin(i) ==
    /\ tasks[i].kind = "start" /\ tasks[i].pc = "new"
    /\ MayRun(i)
    /\ IF ReusesClient(rc.client, oc)
       THEN /\ rc' = [rc EXCEPT !.collected_audio = <<>>,
                                !.in_conversation = TRUE,
                                !.streaming_audio = TRUE]
            /\ collectors' = Spawn(collectors)
            /\ tasks' = RemoveAt(tasks, i)
            /\ UNCHANGED <<oc, net>>
       ELSE /\ rc' = [rc EXCEPT !.client = "client", !.listen_task = None]
            /\ oc' = [NewClient EXCEPT !.gen = oc.gen + 1]
            /\ net' = NewSocket
            /\ tasks' = [tasks EXCEPT ![i].pc = "connecting", ![i].gen = oc.gen + 1]
            /\ UNCHANGED collectors
    /\ UNCHANGED <<smVars, regVars, busVars, audioVars, vadVars, fifoVars, detVars, spkVars, loop_busy, hist>>

\* connect(): `if attempt < max_retries - 1` retries, else gives up
LastAttemptIsFirst(attempt) == TRUE

LastAttempt(attempt) == ~(attempt < MaxRetries - 1)

\* one attempt of connect(); on success _start_conversation runs to its end.
\* The coroutine awaits connect() of the client it created; when a later
\* _start_conversation has replaced self.client meanwhile, that client is an
\* orphan, and the statements after the await act on the current self.client:
\* listen() is started on it a second time (or returns at once when it has no
\* socket yet)
StartConversationConnect(i, ok) ==
    /\ tasks[i].kind = "start" /\ tasks[i].pc = "connecting"
    /\ MayRun(i)
    /\ LET own == tasks[i].gen = oc.gen IN
       IF ok
       THEN /\ oc' = IF own
                     THEN [oc EXCEPT !.connected = TRUE, !.has_active_response = FALSE,
                                     !.response_id = 0, !.websocket = "open"]
                     ELSE oc
            /\ net' = IF own THEN Send(net, <<Msg("session.update", 0)>>) ELSE net
            /\ rc' = [rc EXCEPT !.listen_task = IF own THEN "running"
                                                ELSE IF oc.websocket = None THEN "done"
                                                ELSE @,
                                !.in_conversation = TRUE,
                                !.streaming_audio = TRUE]
            /\ collectors' = Spawn(collectors)
            /\ tasks' = IF ~own /\ oc.websocket = "open"
                        THEN Append(RemoveAt(tasks, i), Task("listen_again", 0))
                        ELSE RemoveAt(tasks, i)
            /\ hist' = IF own
                       THEN [hist EXCEPT !.n_connects = @ + 1, !.due_turn = 0,
                                         !.marked_disconnected = FALSE]
                       ELSE hist
       ELSE /\ oc' = IF own THEN [oc EXCEPT !.connected = FALSE] ELSE oc
            /\ IF ~LastAttempt(tasks[i].attempt)
               THEN /\ tasks' = [tasks EXCEPT ![i].attempt = @ + 1]
                    /\ UNCHANGED rc
               ELSE /\ tasks' = RemoveAt(tasks, i)
                    /\ rc' = [OnError(rc, RefusedText) EXCEPT !.in_conversation = FALSE]
            /\ UNCHANGED <<net, collectors, hist>>
    /\ UNCHANGED <<smVars, regVars, busVars, audioVars, vadVars, fifoVars, detVars, spkVars, loop_busy>>

\* listen() started on a socket that another listen() is already reading: recv
\* raises, which is neither CancelledError nor ConnectionClosed, so on_error
ListenAgain(i) ==
    /\ tasks[i].kind = "listen_again" /\ tasks[i].pc = "new"
    /\ MayRun(i)
    /\ tasks' = RemoveAt(tasks, i)
    /\ rc' = IF rc.listen_task = "running" /\ oc.websocket = "open"
             THEN OnError(rc, RecvBusyText) ELSE rc
    /\ UNCHANGED <<smVars, regVars, busVars, audioVars, vadVars, fifoVars, detVars, spkVars,
                   oc, loop_busy, collectors, net, hist>>

\* _restart_conversation up to asyncio.sleep(0.1)
RestartBegin(i) ==
    /\ tasks[i].kind = "restart" /\ tasks[i].pc = "new"
    /\ MayRun(i)
    /\ LET r == IF rc.client = None
                THEN [ret |-> FALSE, msgs |-> <<>>, client |-> oc]
                ELSE CancelResponse(oc)
       IN /\ oc' = r.client
          /\ net' = Send(net, r.msgs)
          /\ hist' = [hist EXCEPT
                !.cancels = IF rc.client = None THEN @
                    ELSE Append(@, [connected |-> oc.connected /\ oc.websocket # None,
                                    active |-> oc.has_active_response,
                                    open |-> hist.open_response,
                                    ret |-> r.ret,
                                    sent |-> Types(r.msgs)])]
    /\ rc' = [rc EXCEPT !.streaming_audio = FALSE]
    /\ tasks' = [tasks EXCEPT ![i].pc = "sleep"]
    /\ UNCHANGED <<smVars, regVars, busVars, audioVars, vadVars, fifoVars, detVars, spkVars,
                   loop_busy, collectors>>

\* _restart_conversation after the sleep: queues cleared, collecting restarted
RestartFinish(i) ==
    /\ tasks[i].kind = "restart" /\ tasks[i].pc = "sleep"
    /\ MayRun(i)
    /\ rc' = [rc EXCEPT !.playback_queue = <<>>, !.collected_audio = <<>>,
                        !.streaming_audio = TRUE]
    /\ audio_queue' = <<>>
    /\ collectors' = Spawn(collectors)
    /\ tasks' = RemoveAt(tasks, i)
    /\ UNCHANGED <<smVars, regVars, busVars, stream, event_bus_set, captured, hotword_queue,
                   vadVars, fifoVars, detVars, spkVars, oc, loop_busy, net, hist>>

\* the turn of stop event s began at or after the hotword that found the
\* client disconnected, and no connect has succeeded since
LateSubmit(h, s) == h.due_turn > 0 /\ h.stop_info[s].turn >= h.due_turn

\* _commit_and_respond with send_complete_audio up to its first send
CommitBegin(i) ==
    /\ tasks[i].kind = "commit" /\ tasks[i].pc = "new"
    /\ MayRun(i)
    /\ LET s == tasks[i].stop
           h == [hist EXCEPT !.late_submit = @ \/ (rc.client # None /\ LateSubmit(hist, s))]
       IN
       IF rc.client = None
       THEN /\ tasks' = RemoveAt(tasks, i)
            /\ hist' = SetOutcome(h, s, "no_client")
            /\ UNCHANGED <<rc, net>>
       ELSE IF ~oc.connected \/ oc.websocket = None
       THEN /\ tasks' = RemoveAt(tasks, i)
            /\ hist' = SetOutcome(h, s, "not_connected")
            /\ UNCHANGED <<rc, net>>
       ELSE IF rc.collected_audio = <<>>
       THEN /\ tasks' = RemoveAt(tasks, i)
            /\ hist' = SetOutcome(h, s, "empty")
            /\ UNCHANGED <<rc, net>>
       ELSE IF oc.websocket = "open"
       THEN /\ tasks' = [tasks EXCEPT ![i].pc = "respond", ![i].gen = oc.gen]
            /\ net' = Send(net, <<[Msg("conversation.item.create", 0)
                                    EXCEPT !.audio = rc.collected_audio]>>)
            /\ hist' = [h EXCEPT !.item_creates = Append(@, s)]
            /\ UNCHANGED rc
       ELSE /\ tasks' = RemoveAt(tasks, i)
            /\ rc' = OnError(rc, ClosedText)
            /\ hist' = SetOutcome(h, s, "failed")
            /\ UNCHANGED net
    /\ UNCHANGED <<smVars, regVars, busVars, audioVars, vadVars, fifoVars, detVars, spkVars,
                   oc, loop_busy, collectors>>

\* send_complete_audio: the response.create that follows the item
CommitRespond(i) ==
    /\ tasks[i].kind = "commit" /\ tasks[i].pc = "respond"
    /\ MayRun(i)
    /\ tasks' = RemoveAt(tasks, i)
    /\ IF tasks[i].gen = oc.gen /\ oc.websocket = "open"
       THEN /\ net' = Send(net, <<Msg("response.create", 0)>>)
            /\ hist' = SetOutcome(hist, tasks[i].stop, "submitted")
            /\ UNCHANGED rc
       ELSE /\ rc' = OnError(rc, ClosedText)
            /\ hist' = SetOutcome(hist, tasks[i].stop, "failed")
            /\ UNCHANGED net
    /\ UNCHANGED <<smVars, regVars, busVars, audioVars, vadVars, fifoVars, detVars, spkVars,
                   oc, loop_busy, collectors>>

\* clear_audio_buffer, submitted by _on_response_done
ClearAudioBuffer(i) ==
    /\ tasks[i].kind = "clear" /\ tasks[i].pc = "new"
    /\ MayRun(i)
    /\ tasks' = RemoveAt(tasks, i)
    /\ IF oc.connected /\ oc.websocket = "open"
       THEN net' = Send(net, <<Msg("input_audio_buffer.clear", 0)>>)
       ELSE UNCHANGED net
    /\ UNCHANGED <<smVars, regVars, busVars, audioVars, vadVars, fifoVars, detVars, spkVars,
                   rc, oc, loop_busy, collectors, hist>>

\* _handle_message with the clearing of the flag on response.done left out
HandleMessageDoneKeepsActive(c, m) ==
    CASE m.type = "response.created" ->
             [c EXCEPT !.has_active_response = TRUE, !.response_id = m.id]
      [] m.type \in {"response.cancelled"} ->
             [c EXCEPT !.has_active_response = FALSE, !.response_id = 0]
      [] OTHER -> c

\* the messages the client has received: a response.created with no
\* response.done after it
Received(h, m) ==
    CASE m.type = "response.created" -> [h EXCEPT !.open_response = TRUE]
      [] m.type = "response.done" -> [h EXCEPT !.open_response = FALSE]
      [] OTHER -> h

\* _handle_message: what a server message does to the client's own fields
HandleMessage(c, m) ==
    CASE m.type = "response.created" ->
             [c EXCEPT !.has_active_response = TRUE, !.response_id = m.id]
      [] m.type \in {"response.done", "response.cancelled"} ->
             [c EXCEPT !.has_active_response = FALSE, !.response_id = 0]
      [] OTHER -> c

\* listen(): one message of `async for message in self.websocket`, handled by
\* _handle_message; the iteration ends quietly on a normal close and raises
\* ConnectionClosed on any other close
ListenStep ==
    /\ rc.loop # None /\ loop_busy = "no"
    /\ rc.listen_task = "running"
    /\ net.inbox # <<>>
    /\ LET m == Head(net.inbox) IN
       /\ net' = [net EXCEPT !.inbox = Tail(@)]
       /\ oc' = IF m.type = "closed_err" THEN [oc EXCEPT !.connected = FALSE]
                ELSE HandleMessage(oc, m)
       /\ rc' = CASE m.type = "response.output_audio.delta" ->
                      [rc EXCEPT !.playback_queue = Append(@, m.id), !.playing = TRUE]
                 [] m.type = "response.done" ->
                      [rc EXCEPT !.streaming_audio = FALSE, !.playing = FALSE]
                 [] m.type = "error" -> OnError(rc, m.text)
                 [] m.type \in {"closed_ok", "closed_err"} ->
                      [rc EXCEPT !.listen_task = "done"]
                 [] OTHER -> rc
       /\ loop_busy' = IF m.type = "response.done" THEN "response_done" ELSE loop_busy
       /\ hist' = IF m.type = "closed_err"
                  THEN [hist EXCEPT !.marked_disconnected = TRUE]
                  ELSE IF m.type = "error"
                  THEN [hist EXCEPT !.last_error = m.text]
                  ELSE Received(hist, m)
    /\ UNCHANGED <<smVars, regVars, busVars, audioVars, vadVars, fifoVars, detVars, spkVars, tasks, collectors>>

\* _on_response_done after time.sleep(0.2), which holds the loop's thread
ResponseDoneFinish ==
    /\ loop_busy = "response_done"
    /\ loop_busy' = "no"
    /\ tasks' = IF rc.loop # None /\ rc.client # None
                THEN Append(tasks, Task("clear", 0)) ELSE tasks
    /\ rc' = [rc EXCEPT !.in_conversation = FALSE]
    /\ hist' = [hist EXCEPT !.n_response_done = @ + 1]
    /\ UNCHANGED <<smVars, regVars, busVars, audioVars, vadVars, fifoVars, detVars, spkVars, oc, collectors, net>>

\* the consumer's _playback_loop: playback_queue.get
ConsumerPlayback ==
    /\ rc.playback_queue # <<>>
    /\ rc' = [rc EXCEPT !.playback_queue = Tail(@)]
    /\ UNCHANGED <<smVars, regVars, busVars, audioVars, vadVars, fifoVars, detVars, spkVars,
                   oc, tasks, loop_busy, collectors, net, hist>>

(***************************************************************************)
(* OpenAIRealtimeClient driven directly by a caller                        *)
(***************************************************************************)
\* connect() as a whole: the socket opens and the session is configured, or
\* every attempt fails
ClientConnect(ok) ==
    /\ ~oc.connected
    /\ IF ok
       THEN /\ oc' = [oc EXCEPT !.connected = TRUE, !.has_active_response = FALSE,
                                !.response_id = 0, !.websocket = "open"]
            /\ net' = Send(NewSocket, <<Msg("session.update", 0)>>)
       ELSE /\ oc' = [oc EXCEPT !.connected = FALSE]
            /\ UNCHANGED net
    /\ UNCHANGED <<smVars, regVars, busVars, audioVars, vadVars, fifoVars, detVars, spkVars,
                   rc, tasks, loop_busy, collectors, hist>>

\* disconnect()
ClientDisconnect ==
    /\ oc.websocket # None
    /\ oc' = [oc EXCEPT !.connected = FALSE, !.websocket = None]
    /\ UNCHANGED <<smVars, regVars, busVars, audioVars, vadVars, fifoVars, detVars, spkVars,
                   rc, tasks, loop_busy, collectors, net, hist>>

\* listen() hands a response message of the server to _handle_message
ClientHandle(m) ==
    /\ oc.websocket = "open" /\ oc.connected
    /\ oc' = HandleMessage(oc, m)
    /\ hist' = Received(hist, m)
    /\ UNCHANGED <<smVars, regVars, busVars, audioVars, vadVars, fifoVars, detVars, spkVars,
                   rc, tasks, loop_busy, collectors, net>>

\* the peer closes the socket
ClientPeerCloses ==
    /\ oc.websocket = "open"
    /\ oc' = [oc EXCEPT !.websocket = "closed"]
    /\ UNCHANGED <<smVars, regVars, busVars, audioVars, vadVars, fifoVars, detVars, spkVars,
                   rc, tasks, loop_busy, collectors, net, hist>>

\* listen(): except websockets.exceptions.ConnectionClosed
ClientListenClosed ==
    /\ oc.websocket = "closed" /\ oc.connected
    /\ oc' = [oc EXCEPT !.connected = FALSE]
    /\ UNCHANGED <<smVars, regVars, busVars, audioVars, vadVars, fifoVars, detVars, spkVars,
                   rc, tasks, loop_busy, collectors, net, hist>>

\* a call of cancel_response()
ClientCancel ==
    /\ LET r == CancelResponse(oc) IN
       /\ oc' = r.client
       /\ net' = Send(net, r.msgs)
       /\ hist' = [hist EXCEPT !.cancels =
             Append(@, [connected |-> oc.connected /\ oc.websocket # None,
                        active |-> oc.has_active_response,
                        open |-> hist.open_response,
                        ret |-> r.ret,
                        sent |-> Types(r.msgs)])]
    /\ UNCHANGED <<smVars, regVars, busVars, audioVars, vadVars, fifoVars, detVars, spkVars,
                   rc, tasks, loop_busy, collectors>>

(***************************************************************************)
(* base64 and the audio messages                                           *)
(***************************************************************************)
Pad == 64   \* the character "=" (the digits are 0..63)

\* base64.b64encode: three bytes give four digits; a last group of one or
\* two bytes is padded
RECURSIVE B64Encode(_)
B64Encode(bytes) ==
    IF bytes = <<>> THEN <<>>
    ELSE IF Len(bytes) = 1
    THEN <<bytes[1] \div 4, (bytes[1] % 4) * 16, Pad, Pad>>
    ELSE IF Len(bytes) = 2
    THEN <<bytes[1] \div 4, (bytes[1] % 4) * 16 + bytes[2] \div 16,
           (bytes[2] % 16) * 4, Pad>>
    ELSE <<bytes[1] \div 4, (bytes[1] % 4) * 16 + bytes[2] \div 16,
           (bytes[2] % 16) * 4 + bytes[3] \div 64, bytes[3] % 64>>
         \o B64Encode(SubSeq(bytes, 4, Len(bytes)))

\* the bytes the remote end obtains from the "audio" field
RECURSIVE B64Decode(_)
B64Decode(digits) ==
    IF digits = <<>> THEN <<>>
    ELSE LET d == SubSeq(digits, 1, 4)
             b1 == d[1] * 4 + d[2] \div 16
             b2 == (d[2] % 16) * 16 + d[3] \div 4
             b3 == (d[3] % 4) * 64 + d[4]
         IN IF d[3] = Pad THEN <<b1>>
            ELSE IF d[4] = Pad THEN <<b1, b2>>
            ELSE <<b1, b2, b3>> \o B64Decode(SubSeq(digits, 5, Len(digits)))

AudioMsg(type, bytes) == [Msg(type, 0) EXCEPT !.audio = B64Encode(bytes)]

\* send_audio: if len(audio_data) % 2 != 0: audio_data = audio_data[:-1]
EvenLength(audio_data) ==
    IF Len(audio_data) % 2 # 0
    THEN SubSeq(audio_data, 1, Len(audio_data) - 1)
    ELSE audio_data

\* the messages send_audio puts on the socket
SendAudio(c, audio_data) ==
    IF ~c.connected \/ c.websocket = None THEN <<>>
    ELSE IF Len(audio_data) = 0 THEN <<>>
    ELSE IF c.websocket = "open"
    THEN <<AudioMsg("input_audio_buffer.append", EvenLength(audio_data))>>
    ELSE <<>>

\* the messages send_complete_audio puts on the socket
SendCompleteAudio(c, audio_data) ==
    IF ~c.connected \/ c.websocket = None THEN <<>>
    ELSE IF Len(audio_data) = 0 THEN <<>>
    ELSE IF c.websocket = "open"
    THEN <<AudioMsg("conversation.item.create", audio_data),
           Msg("response.create", 0)>>
    ELSE <<>>

\* a call of send_audio(audio_data)
ClientSendAudio(audio_data) ==
    /\ net' = Send(net, SendAudio(oc, audio_data))
    /\ UNCHANGED <<smVars, regVars, busVars, audioVars, vadVars, fifoVars, detVars, spkVars,
                   rc, oc, tasks, loop_busy, collectors, hist>>

\* a call of send_complete_audio(audio_data)
ClientSendCompleteAudio(audio_data) ==
    /\ net' = Send(net, SendCompleteAudio(oc, audio_data))
    /\ UNCHANGED <<smVars, regVars, busVars, audioVars, vadVars, fifoVars, detVars, spkVars,
                   rc, oc, tasks, loop_busy, collectors, hist>>

(***************************************************************************)
(* The remote end of the websocket                                         *)
(***************************************************************************)
SrvRecv(cancel_reply) ==
    /\ oc.websocket = "open"
    /\ net.outbox # <<>>
    /\ LET m == Head(net.outbox)
           n == [net EXCEPT !.outbox = Tail(@)]
       IN net' =
          CASE m.type = "response.create" /\ net.srv_response = 0 ->
                 [n EXCEPT !.inbox = Append(@, Msg("response.created", net.srv_next_id)),
                           !.srv_response = net.srv_next_id,
                           !.srv_stage = "audio",
                           !.srv_next_id = @ + 1]
            [] m.type = "response.create" /\ net.srv_response # 0 ->
                 [n EXCEPT !.inbox = Append(@, ErrorMsg(BusyText))]
            [] m.type = "response.cancel" /\ net.srv_response # 0 ->
                 [n EXCEPT !.inbox = Append(@, Msg(cancel_reply, net.srv_response)),
                           !.srv_response = 0,
                           !.srv_stage = "idle"]
            [] m.type = "response.cancel" /\ net.srv_response = 0 ->
                 [n EXCEPT !.inbox = Append(@, ErrorMsg(NoActiveText))]
            [] OTHER -> n
    /\ UNCHANGED <<smVars, regVars, busVars, audioVars, vadVars, fifoVars, detVars, spkVars,
                   rc, oc, tasks, loop_busy, collectors, hist>>

SrvEmit ==
    /\ oc.websocket = "open"
    /\ net.srv_response # 0
    /\ net' = IF net.srv_stage = "audio"
              THEN [net EXCEPT !.inbox = Append(@, Msg("response.output_audio.delta",
                                                       net.srv_response)),
                               !.srv_stage = "finish"]
              ELSE [net EXCEPT !.inbox = Append(@, Msg("response.done", net.srv_response)),
                               !.srv_response = 0,
                               !.srv_stage = "idle"]
    /\ UNCHANGED <<smVars, regVars, busVars, audioVars, vadVars, fifoVars, detVars, spkVars,
                   rc, oc, tasks, loop_busy, collectors, hist>>

\* the remote end reports an error
SrvError(text) ==
    /\ oc.websocket = "open"
    /\ net' = [net EXCEPT !.inbox = Append(@, ErrorMsg(text))]
    /\ hist' = [hist EXCEPT !.n_errors = @ + 1]
    /\ UNCHANGED <<smVars, regVars, busVars, audioVars, vadVars, fifoVars, detVars, spkVars,
                   rc, oc, tasks, loop_busy, collectors>>

\* the connection closes: normally (code 1000) or not
SrvClose(kind) ==
    /\ oc.websocket = "open"
    /\ net.closes < SessMaxCloses
    /\ oc' = [oc EXCEPT !.websocket = "closed"]
    /\ net' = [net EXCEPT !.inbox = Append(@, Msg(kind, 0)),
                          !.outbox = <<>>,
                          !.srv_response = 0,
                          !.srv_stage = "idle",
                          !.closes = @ + 1]
    /\ UNCHANGED <<smVars, regVars, busVars, audioVars, vadVars, fifoVars, detVars, spkVars,
                   rc, tasks, loop_busy, collectors, hist>>

(***************************************************************************)
(* EventBus                                                                *)
(*                                                                         *)
(* A handler is known by what it does when called: it returns, it raises,  *)
(* or it never returns.                                                    *)
(***************************************************************************)
Topics == {"hotword_detected", "voice_activity_stopped"}
Handlers == {"returns", "raises", "hangs"}

\* list.remove(callback): the first occurrence goes, ValueError is swallowed
RECURSIVE RemoveFirst(_, _)
RemoveFirst(list, h) ==
    IF list = <<>> THEN <<>>
    ELSE IF Head(list) = h THEN Tail(list)
    ELSE <<Head(list)>> \o RemoveFirst(Tail(list), h)

\* subscribe: the append under the lock
Subscribe(topic, h) ==
    /\ bus_lock = 0
    /\ subscribers' = [subscribers EXCEPT ![topic] = Append(@, h)]
    /\ bus_calls' = [bus_calls EXCEPT !.subscribe = @ + 1]
    /\ UNCHANGED <<smVars, regVars, audioVars, vadVars, fifoVars, detVars, spkVars, sessVars,
                   bus_lock, pubs>>

\* unsubscribe: the remove under the lock
Unsubscribe(topic, h) ==
    /\ bus_lock = 0
    /\ subscribers' = [subscribers EXCEPT ![topic] = RemoveFirst(@, h)]
    /\ bus_calls' = [bus_calls EXCEPT !.unsubscribe = @ + 1]
    /\ UNCHANGED <<smVars, regVars, audioVars, vadVars, fifoVars, detVars, spkVars, sessVars,
                   bus_lock, pubs>>

\* publish: with self._lock: subscribers = self._subscribers.get(...).copy()
PublishLock(topic) ==
    /\ bus_lock = 0
    /\ bus_lock' = Len(pubs) + 1
    /\ pubs' = Append(pubs, [topic |-> topic, pc |-> "locked",
                             snapshot |-> subscribers[topic],
                             threads |-> <<>>])
    /\ UNCHANGED <<smVars, regVars, audioVars, vadVars, fifoVars, detVars, spkVars, sessVars,
                   subscribers, bus_calls>>

\* publish: the with block ends; `if not subscribers: return`
PublishUnlock(p) ==
    /\ pubs[p].pc = "locked"
    /\ bus_lock' = 0
    /\ pubs' = [pubs EXCEPT ![p].pc = IF pubs[p].snapshot = <<>>
                                      THEN "returned" ELSE "dispatch"]
    /\ UNCHANGED <<smVars, regVars, audioVars, vadVars, fifoVars, detVars, spkVars, sessVars,
                   subscribers, bus_calls>>

\* the list the for loop of publish walks: the live list instead of the copy
DispatchListLive(pub) == subscribers[pub.topic]

\* the list the for loop of publish walks: its local copy
DispatchList(pub) == pub.snapshot

\* publish joining the threads it has started
WaitsForHandlersJoin(threads) ==
    \E k \in 1..Len(threads) : threads[k].state \in {"started", "running"}

\* publish starts a thread and goes on: it never joins one
WaitsForHandlers(threads) == FALSE

\* publish: threading.Thread(target=self._safe_callback, ...).start() for the
\* next callback of the list; publish returns after the last one
PublishDispatch(p) ==
    /\ pubs[p].pc = "dispatch"
    /\ ~WaitsForHandlers(pubs[p].threads)
    /\ LET list == DispatchList(pubs[p])
           k == Len(pubs[p].threads) + 1
       IN pubs' = IF k > Len(list)
                  THEN [pubs EXCEPT ![p].pc = "returned"]
                  ELSE [pubs EXCEPT ![p].threads =
                           Append(@, [handler |-> list[k], state |-> "started",
                                      calls |-> 0])]
    /\ UNCHANGED <<smVars, regVars, audioVars, vadVars, fifoVars, detVars, spkVars, sessVars,
                   subscribers, bus_lock, bus_calls>>

\* _safe_callback calling the handler again after it has raised
SafeCallbackCallsAgain(h) ==
    CASE h = "returns" -> "done"
      [] h = "raises" -> "started"
      [] h = "hangs" -> "running"

\* _safe_callback: the state of the thread after callback(event_data); an
\* exception is logged and the thread ends
SafeCallback(h) ==
    CASE h = "returns" -> "done"
      [] h = "raises" -> "logged"
      [] h = "hangs" -> "running"

\* a started thread runs _safe_callback
HandlerRun(p, k) ==
    /\ pubs[p].threads[k].state = "started"
    /\ pubs' = [pubs EXCEPT ![p].threads[k] =
                    [@ EXCEPT !.calls = @ + 1,
                              !.state = SafeCallback(pubs[p].threads[k].handler)]]
    /\ UNCHANGED <<smVars, regVars, audioVars, vadVars, fifoVars, detVars, spkVars, sessVars,
                   subscribers, bus_lock, bus_calls>>

(***************************************************************************)
(* Initial states                                                          *)
(***************************************************************************)
(***************************************************************************)
(* StateMachine                                                            *)
(***************************************************************************)
States == {"IDLE", "LISTENING", "PROCESSING", "INTERRUPTED"}

\* valid_transitions of _is_valid_transition
valid_transitions ==
    [from_state \in States |->
        CASE from_state = "IDLE" -> {"LISTENING"}
          [] from_state = "LISTENING" -> {"PROCESSING", "IDLE"}
          [] from_state = "PROCESSING" -> {"IDLE", "INTERRUPTED"}
          [] from_state = "INTERRUPTED" -> {"LISTENING"}]

\* return to_state in valid_transitions.get(from_state, [])
IsValidTransition(from_state, to_state) ==
    to_state \in valid_transitions[from_state]

\* _execute_callbacks: the callbacks registered for the key, each called once
ExecuteCallbacks(from_state, to_state) ==
    Cardinality({k \in 1..Len(sm_callbacks) : sm_callbacks[k] = <<from_state, to_state>>})

\* transition(new_state)
Transition(new_state) ==
    /\ IF ~IsValidTransition(sm_state, new_state)
       THEN /\ sm_state' = sm_state
            /\ sm_last' = [op |-> "transition", old |-> sm_state, new |-> new_state,
                           ret |-> FALSE, ran |-> 0, after |-> sm_state]
       ELSE /\ sm_state' = new_state
            /\ sm_last' = [op |-> "transition", old |-> sm_state, new |-> new_state,
                           ret |-> TRUE, ran |-> ExecuteCallbacks(sm_state, new_state),
                           after |-> new_state]
    /\ UNCHANGED <<regVars, busVars, audioVars, vadVars, fifoVars, detVars, spkVars,
                   sessVars, sm_callbacks>>

\* register_callback(from_state, to_state, callback)
RegisterCallback(from_state, to_state) ==
    /\ sm_callbacks' = Append(sm_callbacks, <<from_state, to_state>>)
    /\ sm_last' = [op |-> "register", old |-> from_state, new |-> to_state,
                   ret |-> FALSE, ran |-> 0, after |-> sm_state]
    /\ UNCHANGED <<regVars, busVars, audioVars, vadVars, fifoVars, detVars, spkVars,
                   sessVars, sm_state>>

\* reset()
Reset ==
    /\ sm_state' = "IDLE"
    /\ sm_last' = [op |-> "reset", old |-> sm_state, new |-> "IDLE", ret |-> FALSE,
                   ran |-> 0, after |-> "IDLE"]
    /\ UNCHANGED <<regVars, busVars, audioVars, vadVars, fifoVars, detVars, spkVars,
                   sessVars, sm_callbacks>>

InitAudio(bus) ==
    /\ stream = None
    /\ event_bus_set = bus
    /\ captured = 0
    /\ hotword_queue = <<>>
    /\ audio_queue = <<>>
    /\ voice_active = FALSE
    /\ silence_frames = 0
    /\ voice_start_time = None
    /\ vad_events = <<>>
    /\ audio_read = <<>>
    /\ audio_dropped = <<>>
    /\ consumer_queues = <<"hotword", "audio">>
    /\ consumer_queue = <<>>

InitDet ==
    /\ running = FALSE
    /\ hotword_cooldown = DetCooldown
    /\ last_detection_time = [w \in Words |-> 0]
    /\ det_pc = "stopped"
    /\ det_frame = NoFrame
    /\ det_latest = 0
    /\ det_scores = [w \in Words |-> 0]
    /\ det_todo = {}
    /\ hotword_events = <<>>

InitSpk(bus) ==
    /\ sp_running = FALSE
    /\ sp_event_bus_set = bus
    /\ sp_queue = <<>>
    /\ sp_playing = FALSE
    /\ content_done = FALSE
    /\ empty_queue_timeout = 0
    /\ sp_pc = "none"
    /\ sp_content_done = FALSE
    /\ sp_stream_open = FALSE
    /\ speaking_finished = 0
    /\ sp_played = <<>>
    /\ sp_marks = 0
    /\ sp_plays = 0
    /\ sp_play_after_mark = FALSE
    /\ pa_pc = "idle"

\* RealtimeConsumer.__init__
InitSess ==
    /\ rc = [loop |-> None, client |-> None, listen_task |-> None,
             in_conversation |-> FALSE, streaming_audio |-> FALSE,
             collected_audio |-> <<>>, playback_queue |-> <<>>,
             playing |-> FALSE]
    /\ oc = NewClient
    /\ tasks = <<>>
    /\ loop_busy = "no"
    /\ collectors = [p \in {"start", "check", "read"} |-> 0]
    /\ net = [outbox |-> <<>>, inbox |-> <<>>, srv_response |-> 0,
              srv_stage |-> "idle", srv_next_id |-> 1, closes |-> 0]
    /\ hist = [n_hotwords |-> 0, n_stops |-> 0, n_response_done |-> 0,
               n_connects |-> 0, stop_info |-> <<>>, item_creates |-> <<>>,
               cancels |-> <<>>, interrupt_pending |-> FALSE,
               marked_disconnected |-> FALSE, due_turn |-> 0,
               late_submit |-> FALSE, open_response |-> FALSE,
               n_errors |-> 0, last_error |-> <<>>]

\* EventBus.__init__
InitBus ==
    /\ subscribers = [t \in Topics |-> <<>>]
    /\ bus_lock = 0
    /\ pubs = <<>>
    /\ bus_calls = [subscribe |-> 0, unsubscribe |-> 0]

\* StateMachine.__init__
InitSm ==
    /\ sm_state = "IDLE"
    /\ sm_callbacks = <<>>
    /\ sm_last = [op |-> "init", old |-> "IDLE", new |-> "IDLE", ret |-> FALSE,
                  ran |-> 0, after |-> "IDLE"]

(***************************************************************************)
(* SpecVad: the tracker fed by the capture callback                        *)
(***************************************************************************)
InitVad == InitAudio(TRUE) /\ InitDet /\ InitSpk(FALSE) /\ InitSess /\ InitBus /\ InitSm

NextVad ==
    \/ start_stream
    \/ \E chunk \in Chunks : captured < VadMaxFrames /\ AudioCallback(chunk)

SpecVad == InitVad /\ [][NextVad]_vars

(***************************************************************************)
(* SpecS1: the tracker fed with speech, up to S1SpeechFrames frames of it, *)
(* and then with silence only                                              *)
(***************************************************************************)
SpeechChunk == [i \in 1..SubFrames |-> TRUE]
SilentChunk == [i \in 1..SubFrames |-> FALSE]

\* no silent frame has been fed yet
InSpeech == captured = 0 \/ (voice_active /\ silence_frames = 0)

NextS1 ==
    \/ start_stream
    \/ InSpeech /\ captured < S1SpeechFrames /\ AudioCallback(SpeechChunk)
    \/ /\ captured > 0
       /\ captured < S1SpeechFrames + S1SilenceFrames
       /\ AudioCallback(SilentChunk)

SpecS1 == InitVad /\ [][NextS1]_vars

(***************************************************************************)
(* SpecFifo: the capture callback against a reader of the audio queue      *)
(***************************************************************************)
InitFifo == InitAudio(FALSE) /\ InitDet /\ InitSpk(FALSE) /\ InitSess /\ InitBus /\ InitSm

NextFifo ==
    \/ start_stream
    \/ \E chunk \in {[i \in 1..SubFrames |-> FALSE]} :
          captured < FifoMaxFrames /\ AudioCallback(chunk)
    \/ ReadAudioChunk

SpecFifo == InitFifo /\ [][NextFifo]_vars

(***************************************************************************)
(* SpecDet: the capture callback against the detection loop                *)
(***************************************************************************)
InitDetect == InitAudio(FALSE) /\ InitDet /\ InitSpk(FALSE) /\ InitSess /\ InitBus /\ InitSm

NextDet ==
    \/ start_stream
    \/ \E chunk \in {[i \in 1..SubFrames |-> FALSE]} :
          captured < DetMaxFrames /\ AudioCallback(chunk)
    \/ DetStart
    \/ DetLoop
    \/ HwSkip
    \/ HwGet
    \/ HwTimeout
    \/ \E scores \in [Words -> ScoreLevels] : DetScore(scores, FALSE)
    \/ DetScore([w \in Words |-> 0], TRUE)
    \/ \E w \in Words : DetWord(w)
    \/ DetWordsDone

SpecDet == InitDetect /\ [][NextDet]_vars

(***************************************************************************)
(* SpecS4: the detection loop fed with frames that all score 0.9 for       *)
(* "alexa", one frame per frame period                                     *)
(***************************************************************************)
S4Scores == [w \in Words |-> IF w = "alexa" THEN 9 ELSE 0]

NextS4 ==
    \/ start_stream
    \/ \E chunk \in {[i \in 1..SubFrames |-> FALSE]} :
          captured < DetMaxFrames /\ AudioCallback(chunk)
    \/ DetStart
    \/ DetLoop
    \/ HwSkip
    \/ HwGet
    \/ HwTimeout
    \/ DetScore(S4Scores, FALSE)
    \/ \E w \in Words : DetWord(w)
    \/ DetWordsDone

SpecS4 == InitDetect /\ [][NextS4]_vars

(***************************************************************************)
(* SpecQuiet: the detection loop fed with frames none of which reaches the *)
(* threshold for any word                                                  *)
(***************************************************************************)
QuietScores == [Words -> {0, Threshold - 1}]

NextQuiet ==
    \/ start_stream
    \/ \E chunk \in {[i \in 1..SubFrames |-> FALSE]} :
          captured < DetMaxFrames /\ AudioCallback(chunk)
    \/ DetStart
    \/ DetLoop
    \/ HwSkip
    \/ HwGet
    \/ HwTimeout
    \/ \E scores \in QuietScores : DetScore(scores, FALSE)
    \/ DetScore([w \in Words |-> 0], TRUE)
    \/ \E w \in Words : DetWord(w)
    \/ DetWordsDone

SpecQuiet == InitDetect /\ [][NextQuiet]_vars

(***************************************************************************)
(* SpecSpk: callers of the SpeakerService against its playback worker      *)
(***************************************************************************)
InitSpeaker ==
    /\ InitAudio(FALSE) /\ InitDet /\ InitSess /\ InitBus /\ InitSm
    /\ \E bus \in BOOLEAN : InitSpk(bus)

NextSpk ==
    \/ SpStart
    \/ sp_plays < SpMaxPlays /\ PlayAudioEnter
    \/ PlayAudioPut
    \/ sp_marks < SpMaxMarks /\ MarkContentDone
    \/ SpClearQueue
    \/ \E device_ok \in BOOLEAN : SpGet(device_ok)
    \/ SpEmpty
    \/ SpReadDone
    \/ SpTest
    \/ SpRaise
    \/ SpReset

SpecSpk == InitSpeaker /\ [][NextSpk]_vars

(***************************************************************************)
(* SpecSess: bus events, the consumer's loop and collector, the remote end *)
(***************************************************************************)
InitSession == InitAudio(TRUE) /\ InitDet /\ InitSpk(FALSE) /\ InitSess /\ InitBus /\ InitSm

NextSess ==
    \/ start_stream
    \/ \E chunk \in {[i \in 1..SubFrames |-> TRUE]} :
          captured < SessMaxFrames /\ AudioCallback(chunk)
    \/ ConsumerStart
    \/ hist.n_hotwords < SessMaxHotwords /\ OnHotwordDetected
    \/ hist.n_stops < SessMaxStops /\ OnVoiceStopped
    \/ ColStart
    \/ ColCheck
    \/ ColRead
    \/ \E i \in 1..Len(tasks) : StartConversationBegin(i)
    \/ \E i \in 1..Len(tasks) : \E ok \in BOOLEAN : StartConversationConnect(i, ok)
    \/ \E i \in 1..Len(tasks) : RestartBegin(i)
    \/ \E i \in 1..Len(tasks) : RestartFinish(i)
    \/ \E i \in 1..Len(tasks) : CommitBegin(i)
    \/ \E i \in 1..Len(tasks) : CommitRespond(i)
    \/ \E i \in 1..Len(tasks) : ClearAudioBuffer(i)
    \/ \E i \in 1..Len(tasks) : ListenAgain(i)
    \/ ListenStep
    \/ ResponseDoneFinish
    \/ ConsumerPlayback
    \/ \E cancel_reply \in {"response.done", "response.cancelled"} : SrvRecv(cancel_reply)
    \/ SrvEmit
    \/ \E kind \in {"closed_ok", "closed_err"} : SrvClose(kind)

SpecSess == InitSession /\ [][NextSess]_vars

(***************************************************************************)
(* SpecTurn: the same machine as SpecSess under one budget of outside      *)
(* events (bus events, captured frames, closes of the peer)                *)
(***************************************************************************)
TurnEvents == hist.n_hotwords + hist.n_stops + captured + net.closes

NextTurn ==
    \/ start_stream
    \/ \E chunk \in {[i \in 1..SubFrames |-> TRUE]} :
          TurnEvents < TurnMaxEvents /\ AudioCallback(chunk)
    \/ ConsumerStart
    \/ TurnEvents < TurnMaxEvents /\ OnHotwordDetected
    \/ TurnEvents < TurnMaxEvents /\ OnVoiceStopped
    \/ ColStart
    \/ ColCheck
    \/ ColRead
    \/ \E i \in 1..Len(tasks) : StartConversationBegin(i)
    \/ \E i \in 1..Len(tasks) : \E ok \in BOOLEAN : StartConversationConnect(i, ok)
    \/ \E i \in 1..Len(tasks) : RestartBegin(i)
    \/ \E i \in 1..Len(tasks) : RestartFinish(i)
    \/ \E i \in 1..Len(tasks) : CommitBegin(i)
    \/ \E i \in 1..Len(tasks) : CommitRespond(i)
    \/ \E i \in 1..Len(tasks) : ClearAudioBuffer(i)
    \/ \E i \in 1..Len(tasks) : ListenAgain(i)
    \/ ListenStep
    \/ ResponseDoneFinish
    \/ ConsumerPlayback
    \/ \E cancel_reply \in {"response.done", "response.cancelled"} : SrvRecv(cancel_reply)
    \/ SrvEmit
    \/ \E kind \in {"closed_ok", "closed_err"} :
          TurnEvents < TurnMaxEvents /\ SrvClose(kind)

SpecTurn == InitSession /\ [][NextTurn]_vars

(***************************************************************************)
(* SpecError: hotwords and error events of the remote end against the      *)
(* consumer's loop                                                         *)
(***************************************************************************)
ErrorEvents == hist.n_hotwords + hist.n_errors

NextError ==
    \/ ConsumerStart
    \/ ErrorEvents < ErrMaxEvents /\ OnHotwordDetected
    \/ ColStart
    \/ ColCheck
    \/ ColRead
    \/ \E i \in 1..Len(tasks) : StartConversationBegin(i)
    \/ \E i \in 1..Len(tasks) : \E ok \in BOOLEAN : StartConversationConnect(i, ok)
    \/ \E i \in 1..Len(tasks) : RestartBegin(i)
    \/ \E i \in 1..Len(tasks) : RestartFinish(i)
    \/ \E i \in 1..Len(tasks) : ListenAgain(i)
    \/ ListenStep
    \/ \E text \in ErrorTexts : ErrorEvents < ErrMaxEvents /\ SrvError(text)

SpecError == InitSession /\ [][NextError]_vars

(***************************************************************************)
(* SpecReg: register_queue against the capture callback                    *)
(***************************************************************************)
NextReg ==
    \/ start_stream
    \/ \E name \in {"consumer", "audio"} :
          Len(consumer_queues) < 2 + RegMaxCalls /\ register_queue(name)
    \/ \E chunk \in {[i \in 1..SubFrames |-> FALSE]} :
          captured < RegMaxFrames /\ AudioCallback(chunk)

SpecReg == InitFifo /\ [][NextReg]_vars

(***************************************************************************)
(* SpecBus: subscribers, publishers and handler threads of the EventBus    *)
(***************************************************************************)
BusEvents == bus_calls.subscribe + bus_calls.unsubscribe + Len(pubs)

NextBus ==
    \/ \E topic \in Topics, h \in Handlers :
          BusEvents < BusMaxEvents /\ Subscribe(topic, h)
    \/ \E topic \in Topics, h \in Handlers :
          BusEvents < BusMaxEvents /\ Unsubscribe(topic, h)
    \/ \E topic \in Topics : BusEvents < BusMaxEvents /\ PublishLock(topic)
    \/ \E p \in 1..Len(pubs) : PublishUnlock(p)
    \/ \E p \in 1..Len(pubs) : PublishDispatch(p)
    \/ \E p \in 1..Len(pubs) : \E k \in 1..Len(pubs[p].threads) : HandlerRun(p, k)

SpecBus == InitVad /\ [][NextBus]_vars

\* every thread that can take a step is scheduled in the end
PublishSteps ==
    \/ \E p \in 1..Len(pubs) : PublishUnlock(p)
    \/ \E p \in 1..Len(pubs) : PublishDispatch(p)

HandlerSteps ==
    \E p \in 1..Len(pubs) : \E k \in 1..Len(pubs[p].threads) : HandlerRun(p, k)

\* the liveness runs follow one topic and the handlers that return or hang
LiveTopics == {"hotword_detected"}
LiveHandlers == {"returns", "hangs"}

NextBusLive ==
    \/ \E topic \in LiveTopics, h \in LiveHandlers :
          BusEvents < BusMaxEvents /\ Subscribe(topic, h)
    \/ \E topic \in LiveTopics, h \in LiveHandlers :
          BusEvents < BusMaxEvents /\ Unsubscribe(topic, h)
    \/ \E topic \in LiveTopics : BusEvents < BusMaxEvents /\ PublishLock(topic)
    \/ PublishSteps
    \/ HandlerSteps

SpecBusLive ==
    InitVad /\ [][NextBusLive]_vars /\ WF_vars(PublishSteps) /\ WF_vars(HandlerSteps)

(***************************************************************************)
(* SpecSend: a caller of send_audio and send_complete_audio with buffers   *)
(* of every length up to SendMaxLen                                        *)
(***************************************************************************)
SendBytes == {1, 254}

RECURSIVE SeqsUpTo(_, _)
SeqsUpTo(S, n) ==
    IF n = 0 THEN {<<>>}
    ELSE LET shorter == SeqsUpTo(S, n - 1)
         IN shorter \cup {Append(s, x) : s \in shorter, x \in S}

SendBuffers == SeqsUpTo(SendBytes, SendMaxLen)

NextSend ==
    \/ \E ok \in BOOLEAN : ClientConnect(ok)
    \/ ClientDisconnect
    \/ ClientPeerCloses
    \/ ClientListenClosed
    \/ \E audio_data \in SendBuffers :
          Len(net.outbox) < SendMaxMsgs /\ ClientSendAudio(audio_data)
    \/ \E audio_data \in SendBuffers :
          Len(net.outbox) < SendMaxMsgs /\ ClientSendCompleteAudio(audio_data)

SpecSend == InitSession /\ [][NextSend]_vars

(***************************************************************************)
(* SpecCancel: a caller of the client's connect, disconnect and            *)
(* cancel_response against the messages and closes of the peer             *)
(***************************************************************************)
NextCancel ==
    \/ \E ok \in BOOLEAN : ClientConnect(ok)
    \/ ClientDisconnect
    \/ \E id \in 0..CancMaxId : ClientHandle(Msg("response.created", id))
    \/ \E type \in {"response.done", "response.cancelled"} : ClientHandle(Msg(type, 0))
    \/ ClientPeerCloses
    \/ ClientListenClosed
    \/ Len(hist.cancels) < CancMaxCalls /\ ClientCancel

SpecCancel == InitSession /\ [][NextCancel]_vars

(***************************************************************************)
(* Properties                                                              *)
(***************************************************************************)
Range(s) == {s[i] : i \in 1..Len(s)}

\* C1: the voice activity events published by _track_voice_activity strictly
\* alternate and begin with started: the odd ones are started, the even ones
\* stopped.
VadEventsAlternate ==
    \A i \in 1..Len(vad_events) :
        vad_events[i].type = IF i % 2 = 1 THEN "started" ELSE "stopped"

\* two complete utterances and the start of a third have been tracked
VadEventsAlternateWitness ==
    /\ Len(vad_events) >= 3
    /\ voice_active

EventsOf(w) == {i \in 1..Len(hotword_events) : hotword_events[i].hotword = w}

CountInWindow(w, from, length) ==
    Cardinality({i \in EventsOf(w) :
        /\ from <= hotword_events[i].timestamp
        /\ hotword_events[i].timestamp <= from + length})

CeilDiv(a, b) == (a + b - 1) \div b

\* C2: two hotword_detected events for the same word are at least
\* hotword_cooldown apart, and a window of any length holds at most
\* ceil(length / cooldown) + 1 events for one word.
HotwordEventsSpaced ==
    /\ \A w \in Words : \A i, j \in EventsOf(w) :
          i < j => hotword_events[j].timestamp - hotword_events[i].timestamp
                      >= hotword_cooldown
    /\ \A w \in Words : \A from \in Epoch..Now : \A length \in 0..(Now - from) :
          CountInWindow(w, from, length) <= CeilDiv(length, hotword_cooldown) + 1

\* a word has fired again exactly one cooldown after its previous event,
\* after a detection in between was suppressed
HotwordEventsSpacedWitness ==
    \E w \in Words : \E i, j \in EventsOf(w) :
        /\ i < j
        /\ hotword_events[j].timestamp - hotword_events[i].timestamp = hotword_cooldown

\* frames handed to the reader so far, followed by those still queued
FifoTrace == audio_read \o audio_queue

\* C3 as stated: the frames the reader obtains are a prefix of the capture
\* trace, so that only a suffix of the trace can be missing.
FifoOnlySuffixMissing ==
    FifoTrace = [i \in 1..Len(FifoTrace) |-> i]

\* C3 as amended: the reader obtains the frames in capture order and each at
\* most once; a frame is missing only if it was captured while the queue held
\* AudioQueueMax frames; and if that never happened no frame is missing.
FifoOrderedNoSilentGap ==
    /\ \A i \in 1..(Len(FifoTrace) - 1) : FifoTrace[i] < FifoTrace[i + 1]
    /\ Range(FifoTrace) \cup Range(audio_dropped) = 1..captured
    /\ Range(FifoTrace) \cap Range(audio_dropped) = {}
    /\ audio_dropped = <<>> => FifoTrace = [i \in 1..captured |-> i]

\* the queue overflowed while the reader was reading: a frame in the middle
\* of the trace is missing, later ones are delivered
FifoOrderedNoSilentGapWitness ==
    /\ audio_dropped # <<>>
    /\ audio_read # <<>>
    /\ \E i \in 1..Len(audio_queue) : audio_queue[i] > audio_dropped[1]

\* C4: read_hotword_chunk returns the most recent frame captured so far.
HotwordReadIsLatest ==
    det_pc = "score" => det_frame = det_latest

\* C8: with the service started and an event bus configured, after play_audio
\* calls followed by one mark_content_done and no further play_audio, the
\* playback worker publishes speaking_finished exactly once: never more than
\* once, and once it has finished handling the end of the content.
SpeakingFinishedExactlyOnce ==
    (sp_event_bus_set /\ sp_marks = 1 /\ ~sp_play_after_mark) =>
        /\ speaking_finished <= 1
        /\ sp_pc \in {"reset", "dead"} => speaking_finished = 1

(***************************************************************************)
(* C5: two voice_activity_stopped events handled with no hotword_detected  *)
(* between them (stops of one turn) cause at most one utterance submission:*)
(* at most one conversation.item.create is sent for the turn.              *)
(***************************************************************************)
OneSubmissionPerTurn ==
    \A a, b \in 1..Len(hist.item_creates) :
        a # b => hist.stop_info[hist.item_creates[a]].turn
                     # hist.stop_info[hist.item_creates[b]].turn

(***************************************************************************)
(* C6: the first voice_activity_stopped after a hotword that was handled   *)
(* while in conversation with a response active is never ignored: it is    *)
(* taken up for submission, however the interrupted response's remaining   *)
(* messages are ordered against the restart (connection kept open).        *)
(***************************************************************************)
InterruptedTurnSubmits ==
    \A s \in 1..Len(hist.stop_info) :
        (hist.stop_info[s].after_interrupt /\ net.closes = 0)
            => hist.stop_info[s].outcome # "ignored"

(***************************************************************************)
(* C7: once the connection is marked disconnected, the turn of the next    *)
(* hotword_detected reconnects before its utterance is handed to           *)
(* send_complete_audio, whatever in_conversation was at the disconnect.    *)
(***************************************************************************)
ReconnectsBeforeSubmission == ~hist.late_submit

(***************************************************************************)
(* C9: a response.done handled by the consumer has been followed by        *)
(* mark_content_done on the speaker service.                               *)
(***************************************************************************)
ResponseDoneMarksContent == hist.n_response_done > 0 => sp_marks > 0

(***************************************************************************)
(* C10: cancel_response sends response.cancel and returns true only if the *)
(* client is connected and a response is active; with no active response   *)
(* it returns false and sends nothing.                                     *)
(***************************************************************************)
CancelOnlyWhenActive ==
    \A k \in 1..Len(hist.cancels) :
        LET e == hist.cancels[k] IN
        /\ (e.ret \/ e.sent # <<>>) => (e.connected /\ e.active)
        /\ e.ret => e.sent = <<"response.cancel">>
        /\ ~e.active => (~e.ret /\ e.sent = <<>>)

CancelOnlyWhenActiveWitness ==
    \E j, k \in 1..Len(hist.cancels) :
        /\ hist.cancels[j].ret /\ hist.cancels[j].sent = <<"response.cancel">>
        /\ hist.cancels[k].connected /\ ~hist.cancels[k].active /\ ~hist.cancels[k].ret

(***************************************************************************)
(* C11: has_active_response is true only if a response.created has been    *)
(* received and no response.done since; a cancel_response called in any    *)
(* other state sends nothing.                                              *)
(***************************************************************************)
ActiveOnlyBetweenCreatedAndDone ==
    /\ oc.has_active_response => hist.open_response
    /\ \A k \in 1..Len(hist.cancels) :
          ~hist.cancels[k].open => hist.cancels[k].sent = <<>>

ActiveOnlyBetweenCreatedAndDoneWitness ==
    /\ oc.has_active_response
    /\ \E j, k \in 1..Len(hist.cancels) :
          /\ j < k
          /\ hist.cancels[j].connected /\ ~hist.cancels[j].open
          /\ hist.cancels[k].open /\ hist.cancels[k].sent # <<>>

(***************************************************************************)
(* C12: handling response.done clears streaming_audio and in_conversation  *)
(* and leaves the client's connected flag and socket as they were; while   *)
(* the client is connected no step (so no following hotword_detected)      *)
(* calls connect again: the connected client is reused.                    *)
(***************************************************************************)
Connecting(ts) == Cardinality({i \in 1..Len(ts) : ts[i].pc = "connecting"})

ResponseDoneKeepsConnection ==
    [][/\ (loop_busy = "no" /\ loop_busy' = "response_done") =>
             /\ oc'.connected = oc.connected /\ oc'.websocket = oc.websocket
             /\ ~rc'.streaming_audio
       /\ (loop_busy = "response_done" /\ loop_busy' = "no") =>
             /\ oc' = oc
             /\ ~rc'.streaming_audio /\ ~rc'.in_conversation
       /\ (rc.client # None /\ oc.connected) =>
             /\ hist'.n_connects = hist.n_connects
             /\ Connecting(tasks') \leq Connecting(tasks)]_vars

ResponseDoneKeepsConnectionWitness ==
    /\ hist.n_response_done > 0 /\ hist.n_hotwords = 2
    /\ hist.n_connects = 1 /\ oc.connected
    /\ rc.in_conversation /\ rc.streaming_audio

(***************************************************************************)
(* C13: connect() makes at most 3 attempts and returns at the first that   *)
(* succeeds, with connected true; it raises only after the third attempt   *)
(* has failed, and then connected is false and the consumer's              *)
(* in_conversation is false.                                               *)
(***************************************************************************)
\* the step in which the connect() awaited by task i returns or raises
ConnectEnds(i) ==
    /\ tasks[i].pc = "connecting"
    /\ tasks' \in {RemoveAt(tasks, i),
                   Append(RemoveAt(tasks, i), Task("listen_again", 0))}

ConnectRetriesThrice ==
    [][\A i \in 1..Len(tasks) :
         /\ tasks[i].pc = "connecting" => tasks[i].attempt + 1 \in 1..3
         /\ ConnectEnds(i) =>
              LET own == tasks[i].gen = oc.gen IN
              IF rc'.in_conversation
              THEN own => (oc'.connected /\ oc'.websocket = "open")
              ELSE /\ tasks[i].attempt + 1 = 3
                   /\ own => ~oc'.connected]_vars

ConnectRetriesThriceWitness ==
    /\ hist.n_connects = 1 /\ hist.n_hotwords = 2
    /\ rc.client # None /\ oc.gen = 2
    /\ ~oc.connected /\ oc.websocket = None
    /\ tasks = <<>> /\ ~rc.in_conversation

(***************************************************************************)
(* C14: when the consumer handles a remote error whose message contains    *)
(* "no active response" or "Cancellation failed", in_conversation and      *)
(* streaming_audio stay as they were; any other error clears both; and a   *)
(* hotword_detected handled while in_conversation is false submits         *)
(* _start_conversation, so a new turn can start after the error.           *)
(***************************************************************************)
ErrorHandled ==
    /\ rc.loop # None /\ loop_busy = "no" /\ rc.listen_task = "running"
    /\ net.inbox # <<>> /\ Head(net.inbox).type = "error"
    /\ net'.inbox = Tail(net.inbox) /\ tasks' = tasks

OnlyCriticalErrorsEndTurn ==
    [][/\ ErrorHandled =>
            IF Head(net.inbox).text \in {NoActiveText, CancelFailedText, NotActiveText}
            THEN /\ rc'.in_conversation = rc.in_conversation
                 /\ rc'.streaming_audio = rc.streaming_audio
            ELSE ~rc'.in_conversation /\ ~rc'.streaming_audio
       /\ (hist'.n_hotwords # hist.n_hotwords /\ rc.loop # None /\ ~rc.in_conversation)
            => tasks' = Append(tasks, Task("start", 0))]_vars

OnlyCriticalErrorsEndTurnWitness ==
    /\ hist.last_error = LowerCaseText
    /\ hist.n_hotwords = 2 /\ hist.n_connects = 1
    /\ rc.in_conversation /\ rc.streaming_audio /\ tasks = <<>>

(***************************************************************************)
(* C15: for one publish, a handler that raises is invoked at most once,    *)
(* every handler of the list publish walks gets one thread and one call,   *)
(* and the exception ends in the log of its own thread, not in publish.    *)
(***************************************************************************)
Invoked(t) == t.state # "started"

RaisingHandlerCalledOnce ==
    \A p \in 1..Len(pubs) :
        LET pub == pubs[p] IN
        /\ Len(pub.threads) <= Len(pub.snapshot)
        /\ pub.pc = "returned" => Len(pub.threads) = Len(pub.snapshot)
        /\ \A k \in 1..Len(pub.threads) :
              LET t == pub.threads[k] IN
              /\ t.calls = IF Invoked(t) THEN 1 ELSE 0
              /\ (Invoked(t) /\ t.handler = "raises") => t.state = "logged"
              /\ (Invoked(t) /\ t.handler = "returns") => t.state = "done"

RaisingHandlerCalledOnceWitness ==
    \E p \in 1..Len(pubs) :
        /\ pubs[p].pc = "returned"
        /\ Len(pubs[p].threads) = 3
        /\ pubs[p].threads[1] = [handler |-> "raises", state |-> "logged", calls |-> 1]
        /\ pubs[p].threads[2] = [handler |-> "returns", state |-> "done", calls |-> 1]
        /\ pubs[p].threads[3] = [handler |-> "raises", state |-> "logged", calls |-> 1]

(***************************************************************************)
(* C16: publish starts its threads for exactly the handlers that were      *)
(* subscribed to the topic when it held the lock, in their order: a        *)
(* handler subscribed later gets no thread of this publish, a handler      *)
(* unsubscribed later still gets one.                                      *)
(***************************************************************************)
ThreadHandlers(pub) == [k \in 1..Len(pub.threads) |-> pub.threads[k].handler]

DeliversToSnapshot ==
    [][\A p \in 1..Len(pubs') :
          LET pub == pubs'[p] IN
          /\ pub.snapshot = IF p > Len(pubs) THEN subscribers[pub.topic]
                            ELSE pubs[p].snapshot
          /\ ThreadHandlers(pub) = SubSeq(pub.snapshot, 1, Len(pub.threads))
          /\ pub.pc = "returned" => ThreadHandlers(pub) = pub.snapshot]_vars

DeliversToSnapshotWitness ==
    \E p \in 1..Len(pubs) :
        LET pub == pubs[p] IN
        /\ pub.pc = "returned" /\ pub.snapshot # <<>>
        /\ \A k \in 1..Len(pub.threads) : pub.threads[k].calls = 1
        /\ \E k \in 1..Len(pub.snapshot) :
              \A j \in 1..Len(subscribers[pub.topic]) :
                  subscribers[pub.topic][j] # pub.snapshot[k]
        /\ \E j \in 1..Len(subscribers[pub.topic]) :
              \A k \in 1..Len(pub.snapshot) :
                  subscribers[pub.topic][j] # pub.snapshot[k]

(***************************************************************************)
(* C17: every publish returns and every thread it started gets to call its *)
(* handler, whatever the other handlers do (one of them may never return), *)
(* and the publish that holds the lock has not started a thread yet.       *)
(***************************************************************************)
Returned(p) == p <= Len(pubs) /\ pubs[p].pc = "returned"

AllInvoked(p) ==
    /\ p <= Len(pubs)
    /\ \A k \in 1..Len(pubs[p].threads) : pubs[p].threads[k].calls = 1

PublishNeverWaits ==
    /\ [](bus_lock # 0 => /\ pubs[bus_lock].pc = "locked"
                          /\ pubs[bus_lock].threads = <<>>)
    /\ \A p \in 1..BusMaxEvents :
          [](p <= Len(pubs) => <>(Returned(p) /\ AllInvoked(p)))

PublishNeverWaitsWitness ==
    \E p \in 1..Len(pubs), q \in 1..Len(pubs) :
        /\ p < q /\ Returned(p) /\ Returned(q)
        /\ bus_lock = 0
        /\ pubs[p].threads = <<[handler |-> "hangs", state |-> "running", calls |-> 1],
                               [handler |-> "returns", state |-> "done", calls |-> 1]>>
        /\ pubs[q].threads = pubs[p].threads

(***************************************************************************)
(* C18: registering the same queue more than once leaves it registered     *)
(* once, and every captured frame is enqueued on it exactly once.          *)
(***************************************************************************)
RegistrationIdempotent ==
    /\ \A j \in 1..Len(consumer_queues), k \in 1..Len(consumer_queues) :
          consumer_queues[j] = consumer_queues[k] => j = k
    /\ \A j \in 1..Len(consumer_queue), k \in 1..Len(consumer_queue) :
          consumer_queue[j] = consumer_queue[k] => j = k
    /\ Places("consumer") > 0 => Len(consumer_queue) <= captured

(***************************************************************************)
(* C19 as stated (scenario S4): a run of consecutive frames that all score *)
(* 0.9 for "alexa" publishes exactly one hotword_detected event: never a   *)
(* second one, and one as soon as the first frame has been scored.         *)
(***************************************************************************)
AlexaVisited ==
    /\ det_pc = "words"
    /\ "alexa" \notin det_todo

BurstPublishesOnce ==
    /\ Cardinality(EventsOf("alexa")) <= 1
    /\ AlexaVisited => Cardinality(EventsOf("alexa")) = 1

(***************************************************************************)
(* C19 as amended: a frame scoring 0.9 for "alexa" publishes an event      *)
(* exactly when at least hotword_cooldown has passed since the last        *)
(* published "alexa" event (or none was published yet); a run of such      *)
(* frames longer than the cooldown therefore publishes one event per       *)
(* cooldown period, the first with the first frame scored.                 *)
(***************************************************************************)
BurstFollowsCooldown ==
    [][/\ (det_pc = "words" /\ "alexa" \in det_todo /\ "alexa" \notin det_todo') =>
             IF Now - last_detection_time["alexa"] >= hotword_cooldown
             THEN /\ Len(hotword_events') = Len(hotword_events) + 1
                  /\ hotword_events'[Len(hotword_events')].hotword = "alexa"
                  /\ hotword_events'[Len(hotword_events')].timestamp = Now
                  /\ hotword_events'[Len(hotword_events')].score = 9
             ELSE hotword_events' = hotword_events
       /\ (Cardinality(EventsOf("alexa")) <=
              CeilDiv(captured, hotword_cooldown))'
       /\ (AlexaVisited => Cardinality(EventsOf("alexa")) >= 1)']_vars

BurstFollowsCooldownWitness ==
    /\ Cardinality(EventsOf("alexa")) = 3
    /\ captured = DetMaxFrames
    /\ AlexaVisited

(***************************************************************************)
(* C20: every captured frame is passed to get_scores (each one enters the  *)
(* hotword queue, and each one that leaves the queue is the frame the loop *)
(* scores next), and with all scores below the threshold no                *)
(* hotword_detected event is published.                                    *)
(***************************************************************************)
EveryFrameScored ==
    [][/\ captured' # captured => hotword_queue' = Append(hotword_queue, captured')
       /\ (hotword_queue # <<>> /\ hotword_queue' = Tail(hotword_queue)) =>
             /\ det_pc' = "score"
             /\ det_frame' = Head(hotword_queue)
       /\ hotword_events' = <<>>]_vars

\* the second half of C20 on its own: nothing is published below the threshold
QuietPublishesNothing == hotword_events = <<>>

(***************************************************************************)
(* C21: the audio of a conversation.item.create message never has an odd   *)
(* number of bytes: send_complete_audio brings an odd-length buffer to     *)
(* even length before it sends it.                                         *)
(***************************************************************************)
AudioBytes(msg) == Len(B64Decode(msg.audio))

CompleteAudioEvenLength ==
    \A k \in 1..Len(net.outbox) :
        net.outbox[k].type = "conversation.item.create" =>
            AudioBytes(net.outbox[k]) % 2 = 0

\* the same for the streaming path, where the code does truncate
AppendAudioEvenLength ==
    \A k \in 1..Len(net.outbox) :
        net.outbox[k].type = "input_audio_buffer.append" =>
            AudioBytes(net.outbox[k]) % 2 = 0

\* base64 loses nothing: the remote end decodes what was encoded
B64RoundTrip == \A bytes \in SendBuffers : B64Decode(B64Encode(bytes)) = bytes

(***************************************************************************)
(* C22 as stated: every voice_activity_stopped handled while               *)
(* in_conversation is true is submitted: its conversation.item.create and  *)
(* its response.create are sent (no such event ends without them).         *)
(***************************************************************************)
StopsInConversation ==
    {s \in 1..Len(hist.stop_info) : hist.stop_info[s].outcome # "ignored"}

StopAlwaysSubmitted ==
    \A s \in StopsInConversation :
        hist.stop_info[s].outcome \in {"pending", "submitted"}

(***************************************************************************)
(* C22 as amended: voice_activity_stopped handled while in_conversation is *)
(* true clears streaming_audio, sends nothing itself and schedules one     *)
(* _commit_and_respond; that coroutine sends at most one                   *)
(* conversation.item.create, carrying the audio collected so far, and then *)
(* at most one response.create, and no other message; the item is sent     *)
(* only when the client is connected, its socket open and the collected    *)
(* audio not empty, the response.create only after the item.               *)
(***************************************************************************)
CountType(msgs, type) == Cardinality({k \in 1..Len(msgs) : msgs[k].type = type})

Settles(s, outcome) ==
    /\ hist.stop_info[s].outcome = "pending"
    /\ hist'.stop_info[s].outcome = outcome

StopSubmitsOnce ==
    [][(net'.outbox = net.outbox /\ hist' = hist) \/
       (/\ (hist'.n_stops # hist.n_stops /\ rc.in_conversation) =>
              /\ ~rc'.streaming_audio
              /\ net' = net
              /\ tasks' = Append(tasks, Task("commit", hist'.n_stops))
        /\ hist'.item_creates # hist.item_creates =>
              \E s \in StopsInConversation :
                 /\ hist'.item_creates = Append(hist.item_creates, s)
                 /\ s \notin Range(hist.item_creates)
                 /\ hist.stop_info[s].outcome = "pending"
                 /\ oc.connected /\ oc.websocket = "open" /\ rc.collected_audio # <<>>
                 /\ net'.outbox = Append(net.outbox,
                        [Msg("conversation.item.create", 0)
                            EXCEPT !.audio = rc.collected_audio])
        /\ \A s \in StopsInConversation :
              /\ Settles(s, "submitted") =>
                    /\ s \in Range(hist.item_creates)
                    /\ net'.outbox = Append(net.outbox, Msg("response.create", 0))
              /\ (hist'.stop_info[s].outcome # hist.stop_info[s].outcome
                     /\ ~Settles(s, "submitted")) => net'.outbox = net.outbox
        /\ CountType(net'.outbox, "conversation.item.create")
              > CountType(net.outbox, "conversation.item.create")
              => hist'.item_creates # hist.item_creates
        /\ CountType(net'.outbox, "response.create")
              > CountType(net.outbox, "response.create")
              => \E s \in StopsInConversation : Settles(s, "submitted"))]_vars

StopSubmitsOnceWitness ==
    /\ hist.n_stops = 2
    /\ hist.stop_info[1].outcome = "submitted"
    /\ hist.stop_info[2].outcome = "submitted"
    /\ hist.item_creates = <<1, 2>>

(***************************************************************************)
(* C23: voice_activity_stopped handled while in_conversation is false      *)
(* leaves in_conversation, streaming_audio and collected_audio (and every  *)
(* other field of the consumer and of its client) as they were, submits    *)
(* no coroutine and sends nothing to the remote end.                       *)
(***************************************************************************)
StopOutsideConversationIgnored ==
    [][(hist'.n_stops # hist.n_stops /\ ~rc.in_conversation) =>
          /\ rc'.in_conversation = rc.in_conversation
          /\ rc'.streaming_audio = rc.streaming_audio
          /\ rc'.collected_audio = rc.collected_audio
          /\ rc' = rc /\ oc' = oc
          /\ tasks' = tasks /\ collectors' = collectors
          /\ net' = net]_vars

\* a stop was ignored after a turn had collected audio and lost its
\* conversation
StopOutsideConversationIgnoredWitness ==
    /\ hist.n_stops > 0
    /\ hist.stop_info[hist.n_stops].outcome = "ignored"
    /\ hist.n_connects > 0
    /\ rc.collected_audio # <<>>
    /\ ~rc.in_conversation
    /\ tasks = <<>>

(***************************************************************************)
(* C24: play_audio called on a started service while content_done is true  *)
(* sets content_done to false and then puts its chunk on the queue; from   *)
(* the reset until the chunk has been taken from the queue no              *)
(* speaking_finished event is published, and a pass of the playback loop   *)
(* that reads content_done in that time does not count towards one.        *)
(***************************************************************************)
ChunkPending == pa_pc = "put" \/ sp_queue # <<>>

StoppedEvents == {i \in 1..Len(vad_events) : vad_events[i].type = "stopped"}

StoppedDurationIsSpan ==
    \A i \in StoppedEvents :
        /\ i > 1
        /\ vad_events[i - 1].type = "started"
        /\ vad_events[i].duration =
              vad_events[i].timestamp - vad_events[i - 1].timestamp

\* two utterances of different lengths have been timed
StoppedDurationIsSpanWitness ==
    /\ Len(vad_events) >= 4
    /\ vad_events[2].duration = SilenceThreshold
    /\ vad_events[4].duration > SilenceThreshold + 1

(***************************************************************************)
(* C27: while the tracker is active, a frame either is speech (the silence *)
(* counter goes to 0, nothing is emitted, the tracker stays active), or is *)
(* not speech and increments the counter with nothing emitted, or is the   *)
(* non-speech frame that completes silence_threshold of them in a row: on  *)
(* that frame and no other voice_activity_stopped is emitted, the tracker  *)
(* is silent and the counter is 0 again. The counter stays below the       *)
(* threshold and at 0 while the tracker is silent.                         *)
(***************************************************************************)
VadHysteresis ==
    [][/\ (captured' # captured /\ voice_active) =>
             \/ /\ silence_frames' = 0
                /\ voice_active'
                /\ vad_events' = vad_events
                /\ voice_start_time' = voice_start_time
             \/ /\ silence_frames + 1 < SilenceThreshold
                /\ silence_frames' = silence_frames + 1
                /\ voice_active'
                /\ vad_events' = vad_events
                /\ voice_start_time' = voice_start_time
             \/ /\ silence_frames + 1 = SilenceThreshold
                /\ silence_frames' = 0
                /\ ~voice_active'
                /\ Len(vad_events') = Len(vad_events) + 1
                /\ vad_events'[Len(vad_events')].type = "stopped"
                /\ vad_events'[Len(vad_events')].timestamp = Now'
       /\ silence_frames' < SilenceThreshold
       /\ ~voice_active' => silence_frames' = 0]_vars

\* an utterance ended by a full run of silent frames, a threshold's worth of
\* frames after it began
VadHysteresisWitness ==
    /\ Len(vad_events) = 2
    /\ ~voice_active /\ silence_frames = 0
    /\ vad_events[2].duration = 2 * SilenceThreshold

(***************************************************************************)
(* C26 as stated (scenario S1): speech followed by silence makes           *)
(* voice_activity_stopped fire after silence_threshold frames (1.2 s) of   *)
(* trailing silence, carrying the length of the speech (2.0 s for 2 s of   *)
(* speech) as its duration, to within one frame.                           *)
(***************************************************************************)
\* frames of speech fed before the silence that ended utterance i
SpeechFramesOf(i) ==
    vad_events[i].timestamp - SilenceThreshold - vad_events[i - 1].timestamp + 1

S1DurationIsSpeech ==
    \A i \in StoppedEvents :
        /\ vad_events[i].duration >= SpeechFramesOf(i) - 1
        /\ vad_events[i].duration <= SpeechFramesOf(i) + 1

(***************************************************************************)
(* C26 as amended: voice_activity_stopped fires on the frame that          *)
(* completes silence_threshold silent frames (1.2 s of trailing silence)   *)
(* and on no earlier one, and its duration is the time from the first      *)
(* speech frame to that frame: the speech and the trailing silence         *)
(* together (2 s of speech: 24 + 15 frame periods, about 3.1 s).           *)
(***************************************************************************)
S1DurationIncludesSilence ==
    [][/\ vad_events' # vad_events /\ Len(vad_events) = 1 =>
             /\ silence_frames + 1 = SilenceThreshold
             /\ vad_events'[2].type = "stopped"
             /\ vad_events'[2].timestamp = Now'
             /\ vad_events'[2].timestamp =
                   vad_events[1].timestamp + (captured - silence_frames - 1)
                       + SilenceThreshold
             /\ vad_events'[2].duration =
                   (captured - silence_frames - 1) + SilenceThreshold
       /\ (captured' # captured /\ voice_active
              /\ silence_frames + 1 < SilenceThreshold) => vad_events' = vad_events
       /\ Len(vad_events') <= 2]_vars

\* the scenario itself: S1SpeechFrames frames of speech, the stop on the
\* frame that completes the threshold, with both spans in the duration
S1DurationIncludesSilenceWitness ==
    /\ Len(vad_events) = 2
    /\ vad_events[1].timestamp = Epoch + 1
    /\ vad_events[2].timestamp = Epoch + S1SpeechFrames + SilenceThreshold
    /\ vad_events[2].duration = S1SpeechFrames - 1 + SilenceThreshold
    /\ captured = S1SpeechFrames + S1SilenceFrames

(***************************************************************************)
(* C28: collected_audio grows only by a read of the collector thread, and  *)
(* _commit_and_respond reads it (to hand it to send_complete_audio) only   *)
(* in states where streaming_audio is false.                               *)
(***************************************************************************)
\* _commit_and_respond for stop event s runs up to its first await
CommitReadsFor(s) ==
    /\ hist.stop_info[s].outcome = "pending"
    /\ s \notin Range(hist.item_creates)
    /\ \/ hist'.stop_info[s].outcome \notin {"pending", "no_client"}
       \/ s \in Range(hist'.item_creates)

CollectedReadWhenNotStreaming ==
    [][/\ Len(rc'.collected_audio) > Len(rc.collected_audio) =>
             /\ collectors'["read"] = collectors["read"] - 1
             /\ audio_queue # <<>>
             /\ rc'.collected_audio = Append(rc.collected_audio, Head(audio_queue))
       /\ \A s \in 1..Len(hist.stop_info) :
             CommitReadsFor(s) => ~rc.streaming_audio]_vars

(***************************************************************************)
(* SpecCol: hotwords, stops and captured frames against the consumer's     *)
(* start, restart and commit coroutines and its collector threads; every   *)
(* collector is a thread of its own, so each of its steps is taken once it *)
(* stays possible                                                          *)
(***************************************************************************)
ColEvents == hist.n_hotwords + hist.n_stops + captured

CollectorSteps == ColStart \/ ColCheck \/ ColRead

NextCol ==
    \/ start_stream
    \/ \E chunk \in {[i \in 1..SubFrames |-> TRUE]} :
          ColEvents < ColMaxEvents /\ AudioCallback(chunk)
    \/ ConsumerStart
    \/ ColEvents < ColMaxEvents /\ OnHotwordDetected
    \/ ColEvents < ColMaxEvents /\ OnVoiceStopped
    \/ CollectorSteps
    \/ \E i \in 1..Len(tasks) : StartConversationBegin(i)
    \/ \E i \in 1..Len(tasks) : \E ok \in BOOLEAN : StartConversationConnect(i, ok)
    \/ \E i \in 1..Len(tasks) : RestartBegin(i)
    \/ \E i \in 1..Len(tasks) : RestartFinish(i)
    \/ \E i \in 1..Len(tasks) : CommitBegin(i)
    \/ \E i \in 1..Len(tasks) : CommitRespond(i)

SpecCol == InitSession /\ [][NextCol]_vars /\ WF_vars(CollectorSteps)

(***************************************************************************)
(* C29: once streaming_audio or in_conversation is false and stays false,  *)
(* every collector thread ends: a thread inside read_audio_chunk comes     *)
(* back from the timed read and leaves at the next test of the flags.      *)
(***************************************************************************)
Streaming == rc.streaming_audio /\ rc.in_conversation

NoCollectors == \A pos \in DOMAIN collectors : collectors[pos] = 0

CollectorTerminates == []([]~Streaming => <>NoCollectors)

\* a collector waits in the timed read of an empty queue after the flag
\* was cleared
CollectorTerminatesWitness ==
    /\ collectors["read"] > 0
    /\ ~rc.streaming_audio
    /\ rc.in_conversation
    /\ stream # None
    /\ audio_queue = <<>>

(***************************************************************************)
(* SpecStop: the detection loop with stop() and stop_stream() called from  *)
(* other threads; the loop runs on a thread of its own and each of its     *)
(* steps returns (the read of the hotword queue after 0.2 s at the latest) *)
(***************************************************************************)
DetLoopSteps ==
    \/ DetLoop
    \/ HwSkip
    \/ HwGet
    \/ HwTimeout
    \/ \E scores \in [Words -> ScoreLevels] : DetScore(scores, FALSE)
    \/ DetScore([w \in Words |-> 0], TRUE)
    \/ \E w \in Words : DetWord(w)
    \/ DetWordsDone

NextStop ==
    \/ start_stream
    \/ stop_stream
    \/ \E chunk \in {[i \in 1..SubFrames |-> FALSE]} :
          captured < StopMaxFrames /\ AudioCallback(chunk)
    \/ DetStart
    \/ DetStop
    \/ DetLoopSteps

\* what a step of the loop that makes progress changes
loopVars == <<det_pc, det_todo, hotword_queue>>

SpecStop == InitDetect /\ [][NextStop]_vars /\ WF_loopVars(DetLoopSteps)

(***************************************************************************)
(* C30: after stop() has set running to false, start() returns: no new     *)
(* iteration begins, and the loop reaches its end whether frames keep      *)
(* arriving, the hotword queue stays empty or the stream has been stopped. *)
(***************************************************************************)
StartReturnsAfterStop ==
    /\ (~running) ~> (det_pc = "stopped")
    /\ [][~running /\ det_pc = "loop" => det_pc' = "stopped"]_det_pc

\* stop() was called while the loop waits for a frame of an empty queue
StoppedWhileQueueEmpty ==
    /\ ~running
    /\ det_pc = "get"
    /\ hotword_queue = <<>>
    /\ stream # None

(***************************************************************************)
(* SpecSm: a StateMachine under calls of transition, register_callback and *)
(* reset                                                                   *)
(***************************************************************************)
NextSm ==
    \/ \E new_state \in States : Transition(new_state)
    \/ \E from_state \in States : \E to_state \in States :
          Len(sm_callbacks) < SmMaxCallbacks /\ RegisterCallback(from_state, to_state)
    \/ Reset

SpecSm == InitVad /\ [][NextSm]_vars

(***************************************************************************)
(* C31: transition succeeds exactly for IDLE->LISTENING,                   *)
(* LISTENING->PROCESSING, PROCESSING->IDLE, PROCESSING->INTERRUPTED and    *)
(* INTERRUPTED->LISTENING; any other call returns False, leaves the state  *)
(* as it was and runs no callback.                                         *)
(***************************************************************************)
Documented ==
    {<<"IDLE", "LISTENING">>, <<"LISTENING", "PROCESSING">>, <<"PROCESSING", "IDLE">>,
     <<"PROCESSING", "INTERRUPTED">>, <<"INTERRUPTED", "LISTENING">>}

TransitionOnlyDocumented ==
    sm_last.op = "transition" =>
        IF <<sm_last.old, sm_last.new>> \in Documented
        THEN sm_last.ret /\ sm_last.after = sm_last.new
        ELSE ~sm_last.ret /\ sm_last.after = sm_last.old /\ sm_last.ran = 0

(***************************************************************************)
(* C32: at most one _stream_audio_loop thread is alive at any time; when   *)
(* _restart_conversation sets streaming_audio again and starts a collector *)
(* the previous one has ended.                                             *)
(***************************************************************************)
LiveCollectors == collectors["start"] + collectors["check"] + collectors["read"]

AtMostOneCollector == LiveCollectors <= 1

\* the step of _restart_conversation that starts the new thread
RestartStartsCollector ==
    /\ \E i \in 1..Len(tasks) : tasks[i].kind = "restart" /\ tasks[i].pc = "sleep"
    /\ collectors'["start"] = collectors["start"] + 1
    /\ Len(tasks') < Len(tasks)

RestartAfterCollectorEnded ==
    [][RestartStartsCollector => LiveCollectors = 0]_vars

(***************************************************************************)
(* C33: on a cold start, a voice_activity_stopped handled after the        *)
(* hotword_detected (while _start_conversation is still on its way to      *)
(* in_conversation = True) is not discarded as 'not in conversation'.      *)
(***************************************************************************)
ColdStartPending ==
    /\ hist.n_connects = 0
    /\ \E i \in 1..Len(tasks) : tasks[i].kind = "start"

ColdStartStopNotIgnored ==
    [][(hist'.n_stops = hist.n_stops + 1 /\ ColdStartPending)
          => hist'.stop_info[hist'.n_stops].outcome # "ignored"]_vars

(***************************************************************************)
(* C34: two hotword_detected events handled while in_conversation is still *)
(* false do not create two clients, two listen tasks or two collectors: at *)
(* most one _start_conversation is connecting a client, listen() is never  *)
(* started a second time on a socket, and at most one collector is alive.  *)
(***************************************************************************)
SecondListens == {i \in 1..Len(tasks) : tasks[i].kind = "listen_again"}

OneClientListenCollector ==
    /\ Connecting(tasks) <= 1
    /\ SecondListens = {}
    /\ LiveCollectors <= 1

\* the three parts one by one
OneConnecting == Connecting(tasks) <= 1

OneListen == SecondListens = {}

(***************************************************************************)
(* SpecPre: the machine of SpecTurn with a microphone that delivers frames *)
(* only while no turn is in progress: nobody is in conversation, no start  *)
(* or restart is on its way and no collector is alive.  Every frame is     *)
(* then older than the hotword of the turn that collects it.               *)
(***************************************************************************)
NoTurn ==
    /\ ~rc.in_conversation
    /\ \A i \in 1..Len(tasks) : tasks[i].kind \notin {"start", "restart"}
    /\ LiveCollectors = 0

NextPre ==
    \/ start_stream
    \/ \E chunk \in {[i \in 1..SubFrames |-> TRUE]} :
          TurnEvents < TurnMaxEvents /\ NoTurn /\ AudioCallback(chunk)
    \/ ConsumerStart
    \/ TurnEvents < TurnMaxEvents /\ OnHotwordDetected
    \/ TurnEvents < TurnMaxEvents /\ OnVoiceStopped
    \/ ColStart
    \/ ColCheck
    \/ ColRead
    \/ \E i \in 1..Len(tasks) : StartConversationBegin(i)
    \/ \E i \in 1..Len(tasks) : \E ok \in BOOLEAN : StartConversationConnect(i, ok)
    \/ \E i \in 1..Len(tasks) : RestartBegin(i)
    \/ \E i \in 1..Len(tasks) : RestartFinish(i)
    \/ \E i \in 1..Len(tasks) : CommitBegin(i)
    \/ \E i \in 1..Len(tasks) : CommitRespond(i)
    \/ \E i \in 1..Len(tasks) : ClearAudioBuffer(i)
    \/ \E i \in 1..Len(tasks) : ListenAgain(i)
    \/ ListenStep
    \/ ResponseDoneFinish
    \/ ConsumerPlayback
    \/ \E cancel_reply \in {"response.done", "response.cancelled"} : SrvRecv(cancel_reply)
    \/ SrvEmit
    \/ \E kind \in {"closed_ok", "closed_err"} :
          TurnEvents < TurnMaxEvents /\ SrvClose(kind)

SpecPre == InitSession /\ [][NextPre]_vars

(***************************************************************************)
(* C35: the audio submitted for a turn holds only frames captured after    *)
(* the turn's hotword_detected; frames that were waiting in audio_queue    *)
(* before it are not part of the utterance.  With frames captured only     *)
(* between turns, no frame is ever collected or submitted.                 *)
(***************************************************************************)
NoStaleFrameSubmitted ==
    /\ hist.item_creates = <<>>
    /\ \A k \in 1..Len(net.outbox) : net.outbox[k].audio = <<>>

(***************************************************************************)
(* SpecEnd: the machine of SpecTurn with a remote end that answers: the    *)
(* connection closes only while no response.create is unanswered.  The     *)
(* loop runs every coroutine and callback that is ready, the remote end    *)
(* handles every message and finishes every response, and the collector    *)
(* threads keep running.                                                   *)
(***************************************************************************)
LoopSteps ==
    \/ \E i \in 1..Len(tasks) : StartConversationBegin(i)
    \/ \E i \in 1..Len(tasks) : \E ok \in BOOLEAN : StartConversationConnect(i, ok)
    \/ \E i \in 1..Len(tasks) : RestartBegin(i)
    \/ \E i \in 1..Len(tasks) : RestartFinish(i)
    \/ \E i \in 1..Len(tasks) : CommitBegin(i)
    \/ \E i \in 1..Len(tasks) : CommitRespond(i)
    \/ \E i \in 1..Len(tasks) : ClearAudioBuffer(i)
    \/ \E i \in 1..Len(tasks) : ListenAgain(i)
    \/ ListenStep
    \/ ResponseDoneFinish
    \/ ConsumerPlayback

SrvSteps ==
    \/ \E cancel_reply \in {"response.done", "response.cancelled"} : SrvRecv(cancel_reply)
    \/ SrvEmit

\* a response.create the remote end has received or is about to receive
ResponseOwed ==
    \/ net.srv_response # 0
    \/ \E k \in 1..Len(net.outbox) : net.outbox[k].type = "response.create"

NextEnd ==
    \/ start_stream
    \/ \E chunk \in {[i \in 1..SubFrames |-> TRUE]} :
          TurnEvents < EndMaxEvents /\ AudioCallback(chunk)
    \/ ConsumerStart
    \/ TurnEvents < EndMaxEvents /\ OnHotwordDetected
    \/ TurnEvents < EndMaxEvents /\ OnVoiceStopped
    \/ \E kind \in {"closed_ok", "closed_err"} :
          TurnEvents < EndMaxEvents /\ ~ResponseOwed /\ SrvClose(kind)
    \/ CollectorSteps
    \/ LoopSteps
    \/ SrvSteps

SpecEnd ==
    /\ InitSession
    /\ [][NextEnd]_vars
    /\ WF_vars(LoopSteps)
    /\ WF_vars(SrvSteps)
    /\ WF_vars(CollectorSteps)

(***************************************************************************)
(* C36: every turn ends.  Once voice_activity_stopped has been handled in  *)
(* a conversation (its _commit_and_respond is submitted), in_conversation  *)
(* becomes false, unless another hotword_detected arrives first; also when *)
(* the collected audio is empty or the client is not connected.            *)
(***************************************************************************)
StopHandled(n) ==
    /\ hist.n_hotwords = n
    /\ \E i \in 1..Len(tasks) : tasks[i].kind = "commit" /\ tasks[i].pc = "new"

TurnEnded(n) == ~rc.in_conversation \/ hist.n_hotwords > n

EveryTurnEnds == \A n \in 0..EndMaxEvents : StopHandled(n) ~> TurnEnded(n)

(***************************************************************************)
(* C37: once an interruption has cancelled a response and cleared the      *)
(* playback queue, no audio delta of that response is put on the queue     *)
(* any more, however late it arrives.                                      *)
(***************************************************************************)
\* the delta at the head of the inbox belongs to a response the client has
\* cancelled, and every _restart_conversation has finished its clearing
DeltaOfInterrupted ==
    /\ net.inbox # <<>>
    /\ Head(net.inbox).type = "response.output_audio.delta"
    /\ Head(net.inbox).id # oc.response_id
    /\ \E k \in 1..Len(hist.cancels) : hist.cancels[k].ret
    /\ \A i \in 1..Len(tasks) : tasks[i].kind # "restart"

NoDeltaAfterInterruption ==
    [][(DeltaOfInterrupted /\ net'.inbox = Tail(net.inbox))
          => rc'.playback_queue = rc.playback_queue]_vars

ListenEndedMeansDisconnected ==
    rc.listen_task = "done" => ~oc.connected

\* the hotword that follows: _start_conversation takes its reuse branch on a
\* client whose listen loop has ended
ReusedAfterListenEnded ==
    [][(/\ rc.listen_task = "done" /\ oc.websocket = "closed"
        /\ ~rc.in_conversation /\ rc'.in_conversation)
       => oc'.gen # oc.gen]_vars

(***************************************************************************)
(* C40: VAD tracker invariant, after every processed frame:                *)
(* silence_frames is 0 whenever voice_active is false,                     *)
(* 0 <= silence_frames < silence_threshold always, and voice_start_time is *)
(* set exactly when voice_active is true.                                  *)
(***************************************************************************)
VadTrackerInvariant ==
    /\ ~voice_active => silence_frames = 0
    /\ 0 <= silence_frames /\ silence_frames < SilenceThreshold
    /\ IF voice_active THEN voice_start_time \in Nat ELSE voice_start_time = None

\* the frame that completed the silence threshold has been processed: the
\* stopped event is the last one and the tracker is back at rest
TrackerAtRestAfterStop ==
    /\ vad_events # <<>>
    /\ vad_events[Len(vad_events)].type = "stopped"
    /\ ~voice_active
    /\ captured >= SilenceThreshold + 1

====
